---- MODULE Spec2Model ----
(***************************************************************************)
(* A model of the agentic-video-rag pipeline engine and its orchestration  *)
(* contract/runtime.                                                       *)
(*                                                                         *)
(* Conventions                                                             *)
(*  - Real-valued scores, confidences and thresholds are integers in       *)
(*    thousandths (0.55 is 550); round(x, 3) is then exact.                *)
(*  - stable_id(prefix, parts...) hashes the "|"-joined payload; the model *)
(*    keeps the payload string itself (the hash is taken to be injective). *)
(*  - Python lists, tuples and insertion-ordered dicts are sequences.      *)
(***************************************************************************)
EXTENDS Integers, Sequences, FiniteSets, TLC

VARIABLES
    branching_hooks, \* OrchestratorContract.branching_hooks (enabled hooks)
    events,          \* OrchestrationRuntime.events, the transition log
    rt_call,         \* the last runtime call: [op, current_stage, arg]
    rt_result,       \* what that call returned, or "ValueError"
    arg,             \* the input a stage function is applied to
    ret,             \* what it returned ([op |-> "none"] before the call)
    config,          \* AgenticVideoRAGEngine.config (RuntimeConfig constants)
    hash_salt,       \* which digest function of the family the run has
    stores,          \* AgenticVideoRAGEngine.stores (PipelineStores)
    runs,            \* the run() calls made so far: [request, result, ...]
    threads          \* the callers running concurrently: [pc, keys, ...] each

rtVars == <<branching_hooks, events, rt_call, rt_result>>

fnVars == <<arg, ret>>

engVars == <<config, hash_salt, stores, runs, threads>>

vars == <<branching_hooks, events, rt_call, rt_result, arg, ret,
          config, hash_salt, stores, runs, threads>>

(***************************************************************************)
(* Generic helpers                                                         *)
(***************************************************************************)
Range(s) == {s[i] : i \in 1..Len(s)}

Max2(a, b) == IF a >= b THEN a ELSE b

Min2(a, b) == IF a <= b THEN a ELSE b

RECURSIVE SumSeq(_)
SumSeq(s) == IF s = <<>> THEN 0 ELSE s[1] + SumSeq(Tail(s))

RECURSIVE SelectSeqBy(_, _)
\* [x for x in s if x in keep], order kept.
SelectSeqBy(s, keep) ==
    IF s = <<>> THEN <<>>
    ELSE IF s[1] \in keep THEN <<s[1]>> \o SelectSeqBy(Tail(s), keep)
    ELSE SelectSeqBy(Tail(s), keep)

RECURSIVE SortedInts(_)
\* sorted(set(values)) for a set of integers.
SortedInts(S) ==
    IF S = {} THEN <<>>
    ELSE LET m == CHOOSE x \in S : \A y \in S : x <= y
         IN <<m>> \o SortedInts(S \ {m})

RECURSIVE Flatten(_)
Flatten(ss) == IF ss = <<>> THEN <<>> ELSE ss[1] \o Flatten(Tail(ss))

(***************************************************************************)
(* The strings of the model and what the code's string tests make of them  *)
(***************************************************************************)
ObjectLabels == {"blue_sedan", "person_p1", "person_p2", "red_suv", "white_truck"}

ActionLabels == {"person_exits_suv", "person_walks"}

\* Python's string order on the labels (sorted(...) of label sets).
LabelRank(l) ==
    CASE l = "blue_sedan" -> 1
      [] l = "person_p1" -> 2
      [] l = "person_p2" -> 3
      [] l = "red_suv" -> 4
      [] l = "white_truck" -> 5

\* tokenize(): lower-case, "_" and "-" to blanks, then the [a-z0-9_]+ words.
tokenize(text) ==
    CASE text = "blue_sedan" -> <<"blue", "sedan">>
      [] text = "person_p1" -> <<"person", "p1">>
      [] text = "person_p2" -> <<"person", "p2">>
      [] text = "red_suv" -> <<"red", "suv">>
      [] text = "white_truck" -> <<"white", "truck">>
      [] text = "person_exits_suv" -> <<"person", "exits", "suv">>
      [] text = "person_walks" -> <<"person", "walks">>
      [] text = "find the suv" -> <<"find", "the", "suv">>
      [] text = "find the suv and track the person" ->
            <<"find", "the", "suv", "and", "track", "the", "person">>
      [] text = "track the person" -> <<"track", "the", "person">>
      [] text = "show activity" -> <<"show", "activity">>
      [] text = "camA" -> <<"cama">>
      [] text = "camB" -> <<"camb">>
      [] text = "camC" -> <<"camc">>
      [] text = "interior" -> <<"interior">>
      [] text = "exterior" -> <<"exterior">>
      [] OTHER -> <<>>

RECURSIVE tokenize_joined(_)
\* tokenize(" ".join(texts)): the texts hold no blanks-spanning words, so the
\* tokens of the joined string are the tokens of the texts in order.
tokenize_joined(texts) ==
    IF texts = <<>> THEN <<>> ELSE tokenize(texts[1]) \o tokenize_joined(Tail(texts))

\* `token in label.lower()`: the substring test, on the model's labels.
token_in_label(token, label) == token \in Range(tokenize(label))

(***************************************************************************)
(* Digests, embeddings and similarity (utils.py, adapters.py)              *)
(***************************************************************************)
\* The strings that enter a digest, as numbers.
Code(text) ==
    CASE text = "siglip2:text" -> 2
      [] text = "siglip2:frame" -> 3
      [] text = "lithead:text" -> 5
      [] text = "ivnext:frame" -> 7
      [] text = "ivnext:pooled" -> 11
      [] text = "clip_ext" -> 13
      [] text = "clip_int" -> 17
      [] text = "clip_quiet" -> 19
      [] text = "clip_meta" -> 23
      [] text = "camA" -> 29
      [] text = "camB" -> 31
      [] text = "camC" -> 37
      [] text = "exterior" -> 41
      [] text = "interior" -> 43
      [] text = "blue_sedan" -> 47
      [] text = "person_p1" -> 53
      [] text = "person_p2" -> 59
      [] text = "red_suv" -> 61
      [] text = "white_truck" -> 67
      [] text = "person_exits_suv" -> 71
      [] text = "person_walks" -> 73
      [] text = "find the suv and track the person" -> 79
      [] text = "find the suv" -> 83
      [] text = "track the person" -> 89
      [] text = "show activity" -> 97
      [] text = "blue" -> 101
      [] text = "sedan" -> 103
      [] text = "person" -> 107
      [] text = "p1" -> 109
      [] text = "p2" -> 113
      [] text = "red" -> 127
      [] text = "suv" -> 131
      [] text = "white" -> 137
      [] text = "truck" -> 139
      [] text = "exits" -> 149
      [] text = "walks" -> 151
      [] text = "cama" -> 157
      [] text = "camb" -> 163
      [] text = "camc" -> 167
      [] OTHER -> 1

DigestModulus == 1009

RECURSIVE Digest(_)
\* The digest of a seed, given as the numbers of its ":"-separated parts.
Digest(parts) ==
    IF parts = <<>> THEN 7
    ELSE (Digest(SubSeq(parts, 1, Len(parts) - 1)) * 31 + parts[Len(parts)]) % DigestModulus

CodesOf(texts) == [i \in 1..Len(texts) |-> Code(texts[i])]

RECURSIVE CodeOfSet(_)
\* "|".join(sorted(tokens)) as one number: a function of the token set.
CodeOfSet(tokens) ==
    IF tokens = {} THEN 0
    ELSE LET t == CHOOSE x \in tokens : TRUE
         IN Code(t) + CodeOfSet(tokens \ {t})

\* deterministic_vector(seed): the unit vector of a seed, kept as the seed's
\* digest.
deterministic_vector(parts) == Digest(parts)

\* Cosines two different unit vectors may have, in thousandths.
CosLevels == <<-600, -200, 0, 200, 600>>

\* cosine_similarity(left, right): 1 for equal vectors, else a fixed function
\* of the two digests, symmetric in them; hash_salt picks the function.
cosine_similarity(left, right) ==
    IF left = right THEN 1000
    ELSE CosLevels[((left * right + hash_salt * (left + right)) % Len(CosLevels)) + 1]

\* SigLIP2Adapter.embed_text / IVNextLiTTextHeadAdapter.embed_text
embed_text(head, text) == deterministic_vector(<<Code(head), Code(text)>>)

\* SigLIP2Adapter.embed_frame
embed_frame(clip_id, timestamp, semantic_tokens) ==
    deterministic_vector(<<Code("siglip2:frame"), Code(clip_id), timestamp,
                           CodeOfSet(semantic_tokens)>>)

\* overlap_score(query_tokens, semantic_tokens) as the fraction [num, den];
\* 0.0 for an empty query.
overlap_score(query_tokens, semantic_tokens) ==
    IF query_tokens = <<>> THEN [num |-> 0, den |-> 1]
    ELSE [num |-> Cardinality(Range(query_tokens) \cap semantic_tokens),
          den |-> Cardinality(Range(query_tokens))]

\* a / b rounded to the nearest integer (b > 0, a >= 0).
RoundDiv(a, b) == (2 * a + b) \div (2 * b)

(***************************************************************************)
(* Clips and frames: types.py                                              *)
(***************************************************************************)
FrameObservation(timestamp, objects, actions, background_motion) ==
    [timestamp |-> timestamp, objects |-> objects, actions |-> actions,
     background_motion |-> background_motion]

\* What a frame may show: <<objects, actions>>.
FrameKinds ==
    { <<<<>>, <<>>>>,
      <<<<"blue_sedan">>, <<>>>>,
      <<<<"red_suv">>, <<>>>>,
      <<<<"person_p1">>, <<"person_walks">>>>,
      <<<<"red_suv", "person_p1">>, <<"person_exits_suv">>>> }

\* Background-motion magnitudes, around the 0.4 and 0.55 thresholds.
MotionLevels == {300, 550, 800}

\* metadata["active_windows"]: absent/empty, or a list of {t_start, t_end}.
MetaWindowChoices == { <<>>, <<[t_start |-> 0, t_end |-> 1]>> }

Clip(clip_id, camera_id, camera_type, location, frames, has_motion_vectors, active_windows) ==
    [clip_id |-> clip_id, camera_id |-> camera_id, camera_type |-> camera_type,
     location |-> location, frames |-> frames,
     has_motion_vectors |-> has_motion_vectors, active_windows |-> active_windows]

(***************************************************************************)
(* Stage 1: route selection and activity windows (adapters.py, pipeline.py)*)
(***************************************************************************)
stable_id2(prefix, a, b) == prefix \o "|" \o a \o "|" \o b

RECURSIVE SpansFrom(_, _, _)
\* The loop of _contiguous_spans over the sorted timestamps after the first.
SpansFrom(rest, start, end) ==
    IF rest = <<>> THEN << <<start, end>> >>
    ELSE IF rest[1] = end + 1 THEN SpansFrom(Tail(rest), start, rest[1])
    ELSE << <<start, end>> >> \o SpansFrom(Tail(rest), rest[1], rest[1])

_contiguous_spans(timestamps) ==
    IF timestamps = <<>> THEN <<>>
    ELSE LET sorted_ts == SortedInts(Range(timestamps))
         IN SpansFrom(Tail(sorted_ts), sorted_ts[1], sorted_ts[1])

BG_ROUTE_THRESHOLD == 550

BG_MEANINGFUL_THRESHOLD == 400

\* mean(values) > threshold, with mean([]) = 0.0.
MeanExceeds(values, threshold) ==
    IF values = <<>> THEN 0 > threshold
    ELSE SumSeq(values) > threshold * Len(values)

choose_route_motion_first(clip) ==
    IF clip.has_motion_vectors THEN "meta_sync"
    ELSE IF MeanExceeds([i \in 1..Len(clip.frames) |-> clip.frames[i].background_motion],
                        BG_ROUTE_THRESHOLD)
         THEN "bg_motion_trigger"
    ELSE IF clip.camera_type = "moving" THEN "sig_ex_adaptive"
    ELSE "cv_state"

choose_route(clip) ==
    IF clip.has_motion_vectors THEN "meta_sync"
    ELSE IF clip.camera_type = "moving" THEN "sig_ex_adaptive"
    ELSE IF MeanExceeds([i \in 1..Len(clip.frames) |-> clip.frames[i].background_motion],
                        BG_ROUTE_THRESHOLD)
         THEN "bg_motion_trigger"
    ELSE "cv_state"

\* Labels holding one of "suv", "person", "vehicle", "car", "truck".
SemanticSignalLabels == {"person_p1", "person_p2", "red_suv", "white_truck"}

has_semantic_signal(frame) ==
    \/ frame.actions # <<>>
    \/ \E l \in Range(frame.objects) : l \in SemanticSignalLabels

meaningful(frame, route_id) ==
    IF route_id = "bg_motion_trigger"
    THEN has_semantic_signal(frame) /\ frame.background_motion > BG_MEANINGFUL_THRESHOLD
    ELSE has_semantic_signal(frame)

RECURSIVE ActiveTimestamps(_, _)
ActiveTimestamps(frames, route_id) ==
    IF frames = <<>> THEN <<>>
    ELSE (IF meaningful(frames[1], route_id) THEN <<frames[1].timestamp>> ELSE <<>>)
         \o ActiveTimestamps(Tail(frames), route_id)

\* TriggerRouter.extract_active_windows: a list of [t_start, t_end, reason].
extract_active_windows(clip, route_id) ==
    IF route_id = "meta_sync" /\ clip.active_windows # <<>>
    THEN [i \in 1..Len(clip.active_windows) |->
            [t_start |-> clip.active_windows[i].t_start,
             t_end |-> clip.active_windows[i].t_end,
             reason |-> "metadata_window"]]
    ELSE LET spans == _contiguous_spans(ActiveTimestamps(clip.frames, route_id))
         IN [i \in 1..Len(spans) |->
                [t_start |-> spans[i][1], t_end |-> spans[i][2],
                 reason |-> "activity_detected"]]

RECURSIVE FramesIn(_, _, _)
\* [frame for frame in frames if t_start <= frame.timestamp <= t_end]
FramesIn(frames, t_start, t_end) ==
    IF frames = <<>> THEN <<>>
    ELSE (IF t_start <= frames[1].timestamp /\ frames[1].timestamp <= t_end
          THEN <<frames[1]>> ELSE <<>>)
         \o FramesIn(Tail(frames), t_start, t_end)

\* The sorted, duplicate-free token tuple of a list of frames, as a set.
FrameTokens(frames) ==
    UNION { Range(tokenize_joined(frames[i].objects \o frames[i].actions)) :
            i \in 1..Len(frames) }

WindowId(clip_id, route_id, idx, t_start, t_end) ==
    "WIN|" \o clip_id \o "|" \o route_id \o "|" \o ToString(idx) \o "|"
        \o ToString(t_start) \o "|" \o ToString(t_end)

\* The ActiveWindows stage 1 builds for one clip (the body of its clip loop).
ClipWindows(clip) ==
    LET route_id == choose_route(clip)
        window_spans == extract_active_windows(clip, route_id)
    IN [i \in 1..Len(window_spans) |->
          LET w == window_spans[i]
          IN [window_id |-> WindowId(clip.clip_id, route_id, i - 1, w.t_start, w.t_end),
              clip_id |-> clip.clip_id,
              camera_id |-> clip.camera_id,
              route_id |-> route_id,
              t_start |-> w.t_start,
              t_end |-> w.t_end,
              reason |-> w.reason,
              semantic_tokens |-> FrameTokens(FramesIn(clip.frames, w.t_start, w.t_end))]]

\* The KeyframeRecords stage 1 appends for one window of a clip.
WindowKeyframes(clip, window) ==
    LET frames == FramesIn(clip.frames, window.t_start, window.t_end)
    IN [i \in 1..Len(frames) |->
          LET frame_id == stable_id2("FRAME", clip.clip_id, ToString(frames[i].timestamp))
          IN [frame_id |-> frame_id,
              window_id |-> window.window_id,
              clip_id |-> clip.clip_id,
              camera_id |-> clip.camera_id,
              timestamp |-> frames[i].timestamp,
              embedding |-> embed_frame(clip.clip_id, frames[i].timestamp,
                                        window.semantic_tokens),
              embedding_id |-> stable_id2("EMB", frame_id, "siglip2"),
              semantic_tokens |-> window.semantic_tokens,
              route_id |-> window.route_id]]

RECURSIVE Stage1Windows(_)
Stage1Windows(clips) ==
    IF clips = <<>> THEN <<>> ELSE ClipWindows(clips[1]) \o Stage1Windows(Tail(clips))

RECURSIVE Stage1Keyframes(_)
Stage1Keyframes(clips) ==
    IF clips = <<>> THEN <<>>
    ELSE LET ws == ClipWindows(clips[1])
         IN Flatten([i \in 1..Len(ws) |-> WindowKeyframes(clips[1], ws[i])])
            \o Stage1Keyframes(Tail(clips))

(***************************************************************************)
(* Tracklets and stage 4: cross-camera entity resolution (adapters.py)     *)
(***************************************************************************)
\* Python's string order on the camera ids.
CamRank(c) ==
    CASE c = "camA" -> 1
      [] c = "camB" -> 2
      [] c = "camC" -> 3

\* str.lower() on the labels of the model.
lower(label) ==
    CASE label = "Person_P2" -> "person_p2"
      [] OTHER -> label

\* obj.lower().startswith("person")
IsPersonLabel(label) == lower(label) \in {"person_p1", "person_p2"}

TrackId(clip_id, window_id, entity_type, label) ==
    "TRACK|" \o clip_id \o "|" \o window_id \o "|" \o entity_type \o "|" \o label

\* SAM3Adapter._new_tracklet, the artifact write apart.
_new_tracklet(clip, window, entity_type, label, confidence) ==
    LET track_id == TrackId(clip.clip_id, window.window_id, entity_type, label)
    IN [track_id |-> track_id,
        clip_id |-> clip.clip_id,
        camera_id |-> clip.camera_id,
        window_id |-> window.window_id,
        entity_type |-> entity_type,
        label |-> label,
        t_start |-> window.t_start,
        t_end |-> window.t_end,
        mask_confidence |-> Min2(Max2(confidence, 0), 1000),
        overlay_uri |-> "overlay://" \o clip.clip_id \o "/" \o track_id \o ".json"]

RECURSIVE InsertByKey(_, _)
\* x placed after every element of the sorted s whose key is not greater.
InsertByKey(s, x) ==
    IF s = <<>> THEN <<x>>
    ELSE IF s[1].key <= x.key THEN <<s[1]>> \o InsertByKey(Tail(s), x)
    ELSE <<x>> \o s

RECURSIVE SortKeyed(_)
SortKeyed(s) ==
    IF s = <<>> THEN <<>>
    ELSE InsertByKey(SortKeyed(SubSeq(s, 1, Len(s) - 1)), s[Len(s)])

\* sorted(items, key=Key): Python's stable sort, on integer keys.
SortStable(items, Key(_)) ==
    LET keyed == SortKeyed([i \in 1..Len(items) |-> [key |-> Key(items[i]), item |-> items[i]]])
    IN [i \in 1..Len(keyed) |-> keyed[i].item]

\* key=lambda item: (item.t_start, item.camera_id), as one integer.
StartCameraKey(t) == t.t_start * 10 + CamRank(t.camera_id)

\* sorted(track ids) orders by the ids' digests; the model fixes an order of
\* the same kind on what the digest is taken of.
TrackIdKey(t) == (t.t_start * 100 + t.t_end) * 10 + CamRank(t.camera_id)

SortedTrackIds(items) ==
    LET sorted_items == SortStable(items, TrackIdKey)
    IN [i \in 1..Len(sorted_items) |-> sorted_items[i].track_id]

RECURSIVE GroupKeys(_, _, _)
\* The keys of `grouped` in insertion order: lower-cased labels of the
\* tracklets of one entity type, first occurrence first.
GroupKeys(tracklets, entity_type, seen) ==
    IF tracklets = <<>> THEN <<>>
    ELSE LET t == tracklets[1]
             k == lower(t.label)
         IN IF t.entity_type = entity_type /\ k \notin seen
            THEN <<k>> \o GroupKeys(Tail(tracklets), entity_type, seen \cup {k})
            ELSE GroupKeys(Tail(tracklets), entity_type, seen)

RECURSIVE GroupItems(_, _, _)
GroupItems(tracklets, entity_type, key) ==
    IF tracklets = <<>> THEN <<>>
    ELSE (IF tracklets[1].entity_type = entity_type /\ lower(tracklets[1].label) = key
          THEN <<tracklets[1]>> ELSE <<>>)
         \o GroupItems(Tail(tracklets), entity_type, key)

EntityLink(entity_id, entity_type, label, track_ids, confidence, resolved) ==
    [entity_id |-> entity_id, entity_type |-> entity_type, label |-> label,
     track_ids |-> track_ids, confidence |-> confidence, resolved |-> resolved]

OBJECT_LINK_CONFIDENCE == 830

PERSON_RESOLVED_CONFIDENCE == 870

PERSON_UNRESOLVED_CONFIDENCE == 460

_resolve_object_links(tracklets) ==
    LET keys == GroupKeys(tracklets, "object", {})
    IN [i \in 1..Len(keys) |->
          EntityLink(stable_id2("OBJ", keys[i], ""), "object", keys[i],
                     SortedTrackIds(GroupItems(tracklets, "object", keys[i])),
                     OBJECT_LINK_CONFIDENCE, TRUE)]

\* camera_topology.get(camera_id, tuple())
Neighbors(camera_topology, camera_id) ==
    IF camera_id \in DOMAIN camera_topology THEN camera_topology[camera_id] ELSE {}

pair_breaks_link_ge(prev, curr, camera_topology, max_travel) ==
    /\ prev.camera_id # curr.camera_id
    /\ curr.camera_id \notin Neighbors(camera_topology, prev.camera_id)
    /\ Max2(0, curr.t_start - prev.t_end) >= max_travel

\* The test the pairwise walk applies to (prev, curr): TRUE makes the link
\* unresolved and ends the walk.
pair_breaks_link(prev, curr, camera_topology, max_travel) ==
    /\ prev.camera_id # curr.camera_id
    /\ curr.camera_id \notin Neighbors(camera_topology, prev.camera_id)
    /\ Max2(0, curr.t_start - prev.t_end) > max_travel

RECURSIVE WalkResolved(_, _, _)
\* The loop over zip(sorted_items, sorted_items[1:]) with its break.
WalkResolved(sorted_items, camera_topology, max_travel) ==
    IF Len(sorted_items) < 2 THEN TRUE
    ELSE IF pair_breaks_link(sorted_items[1], sorted_items[2], camera_topology, max_travel)
         THEN FALSE
    ELSE WalkResolved(Tail(sorted_items), camera_topology, max_travel)

_resolve_person_links(tracklets, camera_topology, max_travel) ==
    LET keys == GroupKeys(tracklets, "person", {})
    IN [i \in 1..Len(keys) |->
          LET sorted_items == SortStable(GroupItems(tracklets, "person", keys[i]),
                                         StartCameraKey)
              resolved == WalkResolved(sorted_items, camera_topology, max_travel)
          IN EntityLink(stable_id2("PER", keys[i], ""), "person", keys[i],
                        SortedTrackIds(sorted_items),
                        IF resolved THEN PERSON_RESOLVED_CONFIDENCE
                        ELSE PERSON_UNRESOLVED_CONFIDENCE,
                        resolved)]

\* ReIDResolver.resolve
resolve(tracklets, camera_topology, max_travel) ==
    _resolve_object_links(tracklets) \o
    _resolve_person_links(tracklets, camera_topology, max_travel)

(***************************************************************************)
(* Entity resolution checked on its own, over lists of person tracklets    *)
(***************************************************************************)
MaxTracks == 3

Cameras == {"camA", "camB", "camC"}

ResolveLabels == {"person_p1", "Person_P2"}

\* [t_start, t_end] of the windows the tracklets come from.
ResolveSpans == { <<0, 1>>, <<2, 2>>, <<5, 6>> }

\* Camera adjacency maps: none declared, a chain A-B-C, and a one-way A -> B
\* with camC missing from the map.
Topologies ==
    { [c \in Cameras |-> {}],
      [c \in Cameras |-> CASE c = "camA" -> {"camB"}
                           [] c = "camB" -> {"camA", "camC"}
                           [] c = "camC" -> {"camB"}],
      [c \in {"camA", "camB"} |-> IF c = "camA" THEN {"camB"} ELSE {}] }

\* max_cross_camera_travel_seconds values, around the gaps ResolveSpans give.
TravelChoices == {1, 3}

ResolveTracklet(camera_id, span, label) ==
    LET clip == [clip_id |-> "clip_" \o camera_id, camera_id |-> camera_id]
        window == [window_id |-> WindowId(clip.clip_id, "cv_state", 0, span[1], span[2]),
                   t_start |-> span[1], t_end |-> span[2]]
    IN _new_tracklet(clip, window, "person", label, 860)

ResolveTracklets == { ResolveTracklet(c, sp, l) :
                        c \in Cameras, sp \in ResolveSpans, l \in ResolveLabels }

ResolveInputs ==
    UNION { [1..k -> ResolveTracklets] : k \in 0..MaxTracks }

(***************************************************************************)
(* Stage 5 helper: two-threshold span extraction (adapters.py)             *)
(***************************************************************************)
\* The locals of _extract_spans before its loop. A span is kept as
\* [t_start, t_end, score_sum, score_count]: its confidence mean(scores) is
\* score_sum / score_count.
SpanLoopInit(timestamps) ==
    [in_span |-> FALSE, current_start |-> timestamps[1], current_scores |-> <<>>,
     spans |-> <<>>]

SpanOf(st, t_end) ==
    [t_start |-> st.current_start, t_end |-> t_end,
     score_sum |-> SumSeq(st.current_scores), score_count |-> Len(st.current_scores)]

SpanLoopStep_strict_low(st, ts, score, high, low) ==
    IF ~st.in_span /\ score >= high
    THEN [st EXCEPT !.in_span = TRUE, !.current_start = ts, !.current_scores = <<score>>]
    ELSE IF st.in_span
         THEN IF score > low
              THEN [st EXCEPT !.current_scores = Append(@, score)]
              ELSE [st EXCEPT !.spans = Append(@, SpanOf(st, ts)),
                              !.in_span = FALSE, !.current_scores = <<>>]
    ELSE st

\* One iteration of `for ts, score in zip(timestamps, scores)`.
SpanLoopStep(st, ts, score, high, low) ==
    IF ~st.in_span /\ score >= high
    THEN [st EXCEPT !.in_span = TRUE, !.current_start = ts, !.current_scores = <<score>>]
    ELSE IF st.in_span
         THEN IF score >= low
              THEN [st EXCEPT !.current_scores = Append(@, score)]
              ELSE [st EXCEPT !.spans = Append(@, SpanOf(st, ts)),
                              !.in_span = FALSE, !.current_scores = <<>>]
    ELSE st

\* After the loop: a span still open is closed at the last timestamp.
SpanLoopEnd(st, timestamps) ==
    IF st.in_span THEN Append(st.spans, SpanOf(st, timestamps[Len(timestamps)]))
    ELSE st.spans

RECURSIVE SpanLoopFold(_, _, _, _, _, _)
SpanLoopFold(st, timestamps, scores, k, high, low) ==
    IF k > Min2(Len(timestamps), Len(scores)) THEN st
    ELSE SpanLoopFold(SpanLoopStep(st, timestamps[k], scores[k], high, low),
                      timestamps, scores, k + 1, high, low)

_extract_spans(timestamps, scores, high, low) ==
    IF timestamps = <<>> \/ scores = <<>> THEN <<>>
    ELSE SpanLoopEnd(SpanLoopFold(SpanLoopInit(timestamps), timestamps, scores, 1, high, low),
                     timestamps)

(***************************************************************************)
(* Span extraction checked on its own, one loop iteration per step         *)
(***************************************************************************)
MaxSamples == 3

\* (hysteresis_high, hysteresis_low) pairs; the schema requires high > low.
HysteresisChoices == { <<600, 400>>, <<800, 300>> }

\* Smoothed scores on, between and beyond the thresholds.
ScoreLevels == {200, 300, 400, 500, 600, 800, 1000}

SpanInputs ==
    UNION { { [timestamps |-> [i \in 1..k |-> i - 1], scores |-> sc,
               high |-> h[1], low |-> h[2]] :
                sc \in [1..k -> ScoreLevels], h \in HysteresisChoices } :
            k \in 1..MaxSamples }

(***************************************************************************)
(* Route selection checked on its own, over a family of single clips       *)
(***************************************************************************)
MaxRouteFrames == 2

\* Frame sequences with timestamps 0, 1, ... as _build_frames lays them out.
FrameSeqs(n) ==
    UNION { { [i \in 1..k |-> FrameObservation(i - 1, kinds[i][1], kinds[i][2], motion[i])] :
                kinds \in [1..k -> FrameKinds], motion \in [1..k -> MotionLevels] } :
            k \in 0..n }

RouteClips ==
    { Clip("c1", "camA", ct, "exterior", fs, mv, aw) :
        ct \in {"static", "moving"}, fs \in FrameSeqs(MaxRouteFrames),
        mv \in BOOLEAN, aw \in MetaWindowChoices }

(***************************************************************************)
(* Python dicts, insertion-ordered: sequences of [key, value]              *)
(***************************************************************************)
\* `value` computed once and named inside Body.
With(value, Body(_)) == Body(value)

DictHas(d, k) == \E i \in 1..Len(d) : d[i].key = k

DictGet(d, k) == d[CHOOSE i \in 1..Len(d) : d[i].key = k].value

\* d[k] = v: a present key keeps its place.
DictPut(d, k, v) ==
    IF DictHas(d, k)
    THEN [i \in 1..Len(d) |-> IF d[i].key = k THEN [key |-> k, value |-> v] ELSE d[i]]
    ELSE Append(d, [key |-> k, value |-> v])

DictValues(d) == [i \in 1..Len(d) |-> d[i].value]

RECURSIVE Dedup(_, _)
\* list(dict.fromkeys(items)): first occurrences, in order.
Dedup(items, seen) ==
    IF items = <<>> THEN <<>>
    ELSE IF items[1] \in seen THEN Dedup(Tail(items), seen)
    ELSE <<items[1]>> \o Dedup(Tail(items), seen \cup {items[1]})

\* {item.<id>: item for item in items}[k]: the last item with that id.
LastWith(items, IdOf(_), k) ==
    items[CHOOSE i \in 1..Len(items) :
            /\ IdOf(items[i]) = k
            /\ \A j \in (i + 1)..Len(items) : IdOf(items[j]) # k]

(***************************************************************************)
(* Stores: stores.py                                                       *)
(***************************************************************************)
\* PipelineStores() as constructed.
EmptyStores ==
    [frame_index |-> <<>>,
     window_index |-> <<>>,
     feature_cache |-> [l1 |-> <<>>, l2 |-> <<>>, hits |-> 0, misses |-> 0],
     artifact_store |-> <<>>,
     graph_store |-> [nodes |-> <<>>, edges |-> <<>>],
     evidence_registry |-> <<>>]

\* FrameIndexStore.search: the top_k records by cosine to the query, the
\* sort being stable.
search(records, query_embedding, top_k) ==
    With(SortStable(records, LAMBDA r : 0 - cosine_similarity(query_embedding, r.embedding)),
         LAMBDA ranked : SubSeq(ranked, 1, Min2(top_k, Len(ranked))))

get_l1_uncounted(cache, key) ==
    IF DictHas(cache.l1, key) THEN cache
    ELSE [cache EXCEPT !.misses = @ + 1]

\* FeatureCacheStore.get_l1: the counters after the lookup.
get_l1(cache, key) ==
    IF DictHas(cache.l1, key) THEN [cache EXCEPT !.hits = @ + 1]
    ELSE [cache EXCEPT !.misses = @ + 1]

set_l1(cache, key, value) == [cache EXCEPT !.l1 = DictPut(@, key, value)]

set_l2(cache, key, value) == [cache EXCEPT !.l2 = DictPut(@, key, value)]

\* A registry that keeps only the newest reference of a track.
registry_append_latest(registry, track_id, evidence_ref) ==
    DictPut(registry, track_id, <<evidence_ref>>)

\* EvidenceRegistry.append
registry_append(registry, track_id, evidence_ref) ==
    IF DictHas(registry, track_id)
    THEN DictPut(registry, track_id, Append(DictGet(registry, track_id), evidence_ref))
    ELSE DictPut(registry, track_id, <<evidence_ref>>)

\* EvidenceRegistry.get
registry_get(registry, track_id) ==
    IF DictHas(registry, track_id) THEN DictGet(registry, track_id) ELSE <<>>

(***************************************************************************)
(* Query decomposition and window features (adapters.py)                   *)
(***************************************************************************)
\* [part.strip() for part in text.replace(",", " and ").split(" and ") if
\* part.strip()] on the model's query texts.
SplitParts(query_text) ==
    CASE query_text = "find the suv and track the person" ->
            <<"find the suv", "track the person">>
      [] query_text = "" -> <<>>
      [] OTHER -> <<query_text>>

\* QueryDecomposer.decompose (the query texts of the model are lower-case).
decompose(query_text) ==
    LET parts == SplitParts(query_text)
    IN IF parts = <<>> THEN <<query_text>>
       ELSE <<query_text>> \o SelectSeq(parts, LAMBDA part : part # query_text)

\* [*frame.objects, *frame.actions, clip.camera_id, clip.location]
frame_tokens(frame, clip) ==
    frame.objects \o frame.actions \o <<clip.camera_id, clip.location>>

\* InternVideoNextAdapter.extract_window_features, given the frames it reads
\* and the token set it collects from them.
WindowFeatures(window, clip, frames, semantic_tokens) ==
    [window_id |-> window.window_id,
     clip_id |-> window.clip_id,
     camera_id |-> window.camera_id,
     t_start |-> window.t_start,
     t_end |-> window.t_end,
     pooled_embedding |->
         deterministic_vector(<<Code("ivnext:pooled"), Code(clip.clip_id),
                                window.t_start, window.t_end, CodeOfSet(semantic_tokens)>>),
     per_timestep_embeddings |->
         [i \in 1..Len(frames) |->
             deterministic_vector(<<Code("ivnext:frame"), Code(clip.clip_id),
                                    frames[i].timestamp>>
                                  \o CodesOf(frame_tokens(frames[i], clip)))],
     semantic_tokens |-> semantic_tokens]

\* The frames of the window, or one empty frame at its start when it has none.
FramesOrPlaceholder(in_window, window) ==
    IF in_window = <<>> THEN <<FrameObservation(window.t_start, <<>>, <<>>, 0)>>
    ELSE in_window

\* InternVideoNextAdapter.extract_window_features
extract_window_features(window, clip) ==
    With(FramesOrPlaceholder(FramesIn(clip.frames, window.t_start, window.t_end), window),
         LAMBDA frames :
             WindowFeatures(window, clip, frames,
                            UNION { Range(tokenize_joined(frame_tokens(frames[i], clip))) :
                                    i \in 1..Len(frames) }))

(***************************************************************************)
(* Stage 2: temporal retrieval (pipeline.py)                               *)
(***************************************************************************)
\* (cosine_similarity(a, b) + 1.0) / 2.0
unit_similarity(left, right) == (cosine_similarity(left, right) + 1000) \div 2

RECURSIVE MaxOf(_)
\* max(values) if values else 0.0
MaxOf(values) ==
    IF values = <<>> THEN 0 ELSE Max2(values[1], MaxOf(Tail(values)))

\* round(0.45 * pooled_sim + 0.35 * step_sim + 0.20 * token_sim, 3), token_sim
\* being the fraction [num, den].
blend(pooled_sim, step_sim, token_sim) ==
    RoundDiv((450 * pooled_sim + 350 * step_sim) * token_sim.den + 200000 * token_sim.num,
             1000 * token_sim.den)

\* The confidence _score_windows gives a window's features under a query.
window_confidence(features, query_tokens, query_lit_embedding) ==
    blend(unit_similarity(query_lit_embedding, features.pooled_embedding),
          MaxOf([i \in 1..Len(features.per_timestep_embeddings) |->
                   unit_similarity(query_lit_embedding, features.per_timestep_embeddings[i])]),
          overlap_score(query_tokens, features.semantic_tokens))

ValidatedWindow(window, confidence, query_text) ==
    [window_id |-> window.window_id, clip_id |-> window.clip_id,
     camera_id |-> window.camera_id, t_start |-> window.t_start, t_end |-> window.t_end,
     confidence |-> confidence, query_text |-> query_text]

\* The body of the loop of _score_windows once the features are at hand:
\* `cache` is the feature cache after get_l1 (and set_l1 on a miss).
ScoreStep(acc, window, features, cache, query_text) ==
    [stores |-> [acc.stores EXCEPT
                    !.feature_cache = cache,
                    !.window_index = DictPut(@, window.window_id, features.pooled_embedding)],
     scores |-> Append(acc.scores,
                       ValidatedWindow(window,
                                       window_confidence(features, tokenize(query_text),
                                                         embed_text("lithead:text", query_text)),
                                       query_text))]

\* One iteration of the loop of _score_windows: the cache lookup, then the
\* scoring.
ScoreWindow(acc, window, request, query_text) ==
    IF DictHas(acc.stores.feature_cache.l1, "l1:" \o window.window_id)
    THEN ScoreStep(acc, window,
                   DictGet(acc.stores.feature_cache.l1, "l1:" \o window.window_id),
                   get_l1(acc.stores.feature_cache, "l1:" \o window.window_id),
                   query_text)
    ELSE With(extract_window_features(
                  window, LastWith(request.clips, LAMBDA c : c.clip_id, window.clip_id)),
              LAMBDA features :
                  ScoreStep(acc, window, features,
                            set_l1(get_l1(acc.stores.feature_cache,
                                          "l1:" \o window.window_id),
                                   "l1:" \o window.window_id, features),
                            query_text))

RECURSIVE ScoreLoop(_, _, _, _, _)
\* The loop of _score_windows over the distinct candidate ids; acc is
\* [stores, scores].
ScoreLoop(ids, acc, active_windows, request, query_text) ==
    IF ids = <<>> THEN acc
    ELSE ScoreLoop(Tail(ids),
                   ScoreWindow(acc, LastWith(active_windows, LAMBDA w : w.window_id, ids[1]),
                               request, query_text),
                   active_windows, request, query_text)

\* scores.sort(key=lambda item: item.confidence, reverse=True)
SortedByConfidence(acc) ==
    [stores |-> acc.stores,
     scores |-> SortStable(acc.scores, LAMBDA item : 0 - item.confidence)]

\* AgenticVideoRAGEngine._score_windows: [stores, scores], scores sorted by
\* confidence, highest first.
_score_windows(st, candidate_ids, active_windows, request, query_text) ==
    SortedByConfidence(
        ScoreLoop(SelectSeq(Dedup(candidate_ids, {}),
                            LAMBDA id : \E i \in 1..Len(active_windows) :
                                            active_windows[i].window_id = id),
                  [stores |-> st, scores |-> <<>>],
                  active_windows, request, query_text))

\* What one sub-query adds to `validated`: the rescored items at or above the
\* lowered threshold, then the best rescored item.
SubqueryAdmitted(scores, threshold) ==
    SelectSeq(scores, LAMBDA item : item.confidence >= Max2(350, threshold - 150))
    \o (IF scores # <<>> THEN <<scores[1]>> ELSE <<>>)

RECURSIVE SubqueryLoop(_, _, _, _, _, _)
\* The loop over decompose(query_text)[1:]; acc is [stores, validated].
SubqueryLoop(subqueries, acc, candidate_ids, active_windows, request, threshold) ==
    IF subqueries = <<>> THEN acc
    ELSE With(_score_windows(acc.stores, candidate_ids, active_windows, request,
                             subqueries[1]),
              LAMBDA rescored :
                  SubqueryLoop(Tail(subqueries),
                               [stores |-> rescored.stores,
                                validated |-> acc.validated
                                                \o SubqueryAdmitted(rescored.scores, threshold)],
                               candidate_ids, active_windows, request, threshold))

RECURSIVE BestByClip(_, _)
\* best_by_clip.values(): the first item of every clip, in order.
BestByClip(scored, seen_clips) ==
    IF scored = <<>> THEN <<>>
    ELSE IF scored[1].clip_id \in seen_clips THEN BestByClip(Tail(scored), seen_clips)
    ELSE <<scored[1]>> \o BestByClip(Tail(scored), seen_clips \cup {scored[1].clip_id})

RECURSIVE UniqueByWindow_last(_, _)
\* A `unique` dict that keeps the last instance of every window id.
UniqueByWindow_last(validated, unique) ==
    IF validated = <<>> THEN DictValues(unique)
    ELSE UniqueByWindow_last(Tail(validated),
                             DictPut(unique, validated[1].window_id, validated[1]))

RECURSIVE UniqueByWindow(_, _)
\* The `unique` dict: per window id the first item of highest confidence.
UniqueByWindow(validated, unique) ==
    IF validated = <<>> THEN DictValues(unique)
    ELSE UniqueByWindow(
             Tail(validated),
             IF ~DictHas(unique, validated[1].window_id)
                \/ validated[1].confidence > DictGet(unique, validated[1].window_id).confidence
             THEN DictPut(unique, validated[1].window_id, validated[1])
             ELSE unique)

\* A first loop that takes the top_k best-ranked items whatever their clip.
DiversityPass_rank_only(ranked, selected, seen_clips, top_k) ==
    SubSeq(ranked, 1, Min2(top_k, Len(ranked)))

RECURSIVE DiversityPass(_, _, _, _)
\* First selection loop: one item per clip, until top_k are selected.
DiversityPass(ranked, selected, seen_clips, top_k) ==
    IF ranked = <<>> THEN selected
    ELSE IF ranked[1].clip_id \in seen_clips
         THEN DiversityPass(Tail(ranked), selected, seen_clips, top_k)
    ELSE IF Len(selected) + 1 >= top_k THEN Append(selected, ranked[1])
    ELSE DiversityPass(Tail(ranked), Append(selected, ranked[1]),
                       seen_clips \cup {ranked[1].clip_id}, top_k)

RECURSIVE FillPass(_, _, _)
\* Second selection loop: the remaining slots, by confidence.
FillPass(ranked, selected, top_k) ==
    IF ranked = <<>> \/ Len(selected) >= top_k THEN selected
    ELSE IF \E i \in 1..Len(selected) : selected[i].window_id = ranked[1].window_id
         THEN FillPass(Tail(ranked), selected, top_k)
    ELSE FillPass(Tail(ranked), Append(selected, ranked[1]), top_k)

\* The end of _stage_2_temporal_retrieval: dedup by window id, rank, select.
SelectValidated(validated, top_k) ==
    With(SortStable(UniqueByWindow(validated, <<>>), LAMBDA item : 0 - item.confidence),
         LAMBDA ranked :
             With(FillPass(ranked, DiversityPass(ranked, <<>>, {}, top_k), top_k),
                  LAMBDA selected : SubSeq(selected, 1, Min2(top_k, Len(selected)))))

\* The `validated` list as it reaches the deduplication: after the
\* `if not validated and scored` branch.
AdmittedWindows(main, sub) ==
    IF sub.validated = <<>> /\ main.scores # <<>>
    THEN BestByClip(main.scores, {})
    ELSE sub.validated

\* _stage_2_temporal_retrieval after both scoring passes: `main` is the
\* scoring under the full query, `sub` the state after the sub-query loop.
\* fallback_taken records that the `if not validated and scored` branch ran;
\* scored and admitted record the locals `scored` and `validated`.
ValidateScored(main, sub, cfg) ==
    [stores |-> sub.stores,
     validated_windows |->
         SelectValidated(AdmittedWindows(main, sub), cfg.stage2_validated_top_k_windows),
     fallback_taken |-> sub.validated = <<>> /\ main.scores # <<>>,
     scored |-> main.scores,
     admitted |-> AdmittedWindows(main, sub)]

\* _stage_2_temporal_retrieval from the candidate ids on.
RetrieveCandidates(st, cfg, request, active_windows, candidate_ids) ==
    With(_score_windows(st, candidate_ids, active_windows, request, request.query_text),
         LAMBDA main :
             With(SubqueryLoop(Tail(decompose(request.query_text)),
                               [stores |-> main.stores,
                                validated |->
                                    SelectSeq(main.scores,
                                              LAMBDA item :
                                                  item.confidence
                                                    >= cfg.stage2_min_validation_confidence)],
                               candidate_ids, active_windows, request,
                               cfg.stage2_min_validation_confidence),
                  LAMBDA sub : ValidateScored(main, sub, cfg)))

\* [record.window_id for _, record in frame_hits if record.window_id in
\* windows_by_id]
CandidateIds(frame_hits, active_windows) ==
    SelectSeq([i \in 1..Len(frame_hits) |-> frame_hits[i].window_id],
              LAMBDA id : \E i \in 1..Len(active_windows) : active_windows[i].window_id = id)

\* AgenticVideoRAGEngine._stage_2_temporal_retrieval:
\* [stores, validated_windows, fallback_taken, scored, admitted].
_stage_2_temporal_retrieval(st, cfg, request, active_windows) ==
    With(CandidateIds(search(st.frame_index,
                             embed_text("siglip2:text", request.query_text),
                             cfg.stage2_initial_top_k_windows),
                      active_windows),
         LAMBDA candidate_ids :
             RetrieveCandidates(st, cfg, request, active_windows, candidate_ids))

(***************************************************************************)
(* Stage 3: spatial grounding (adapters.py, pipeline.py)                   *)
(***************************************************************************)
\* Labels holding one of "suv", "car", "truck", "vehicle".
VehicleLabels == {"red_suv", "white_truck"}

\* Labels that start with "person" or hold "suv" or "car".
FallbackLabels == {"person_p1", "person_p2", "red_suv"}

RECURSIVE SortedLabels(_)
\* sorted(labels) for a set of labels.
SortedLabels(labels) ==
    IF labels = {} THEN <<>>
    ELSE LET m == CHOOSE x \in labels : \A y \in labels : LabelRank(x) <= LabelRank(y)
         IN <<m>> \o SortedLabels(labels \ {m})

\* {obj for frame in frames for obj in frame.objects}
ObjectsOf(frames) == UNION { Range(frames[i].objects) : i \in 1..Len(frames) }

OverlayUri(clip_id, track_id) == "overlay://" \o clip_id \o "/" \o track_id \o ".json"

\* The overlay payloads SAM3Adapter._new_tracklet stores for its tracklets.
MaskOverlays(tracklets) ==
    [i \in 1..Len(tracklets) |->
        [key |-> tracklets[i].overlay_uri,
         value |-> "mask_bbox_overlay:" \o tracklets[i].label \o ":"
                     \o ToString(tracklets[i].t_start) \o "-" \o ToString(tracklets[i].t_end)]]

RECURSIVE PutAll(_, _)
\* ArtifactStore.put for a list of [key, value], in order.
PutAll(artifacts, puts) ==
    IF puts = <<>> THEN artifacts
    ELSE PutAll(DictPut(artifacts, puts[1].key, puts[1].value), Tail(puts))

\* The tracklets ground_window builds from the sorted vehicle and person
\* labels of the window's frames.
GroundedTracklets(validated_window, clip, query_tokens, object_labels, person_labels) ==
    With((IF query_tokens \cap {"suv", "vehicle", "car"} # {}
          THEN [i \in 1..Len(object_labels) |->
                  _new_tracklet(clip, validated_window, "object", object_labels[i],
                                IF \E token \in query_tokens :
                                      token_in_label(token, lower(object_labels[i]))
                                THEN 880 ELSE 620)]
          ELSE <<>>)
         \o (IF query_tokens \cap {"person", "who"} # {}
             THEN [i \in 1..Len(person_labels) |->
                     _new_tracklet(clip, validated_window, "person", person_labels[i], 860)]
             ELSE <<>>),
         LAMBDA tracklets :
             IF tracklets # <<>> THEN tracklets
             ELSE [i \in 1..Min2(1, Len(object_labels)) |->
                      _new_tracklet(clip, validated_window, "object", object_labels[i], 420)])

\* SAM3Adapter.ground_window: the tracklets (their overlays are MaskOverlays).
ground_window(validated_window, clip, query_variant) ==
    With(ObjectsOf(FramesIn(clip.frames, validated_window.t_start, validated_window.t_end)),
         LAMBDA objects :
             GroundedTracklets(validated_window, clip, Range(tokenize(query_variant)),
                               SortedLabels(objects \cap VehicleLabels),
                               SortedLabels({ l \in objects : IsPersonLabel(l) })))

\* A fallback whose tracklets carry the grounder's person confidence.
FallbackTracklet_confident(window, clip, label, track_id) ==
    [track_id |-> track_id,
     clip_id |-> clip.clip_id,
     camera_id |-> clip.camera_id,
     window_id |-> window.window_id,
     entity_type |-> IF IsPersonLabel(label) THEN "person" ELSE "object",
     label |-> label,
     t_start |-> window.t_start,
     t_end |-> window.t_end,
     mask_confidence |-> 860,
     overlay_uri |-> OverlayUri(clip.clip_id, track_id)]

FallbackTracklet(window, clip, label, track_id) ==
    [track_id |-> track_id,
     clip_id |-> clip.clip_id,
     camera_id |-> clip.camera_id,
     window_id |-> window.window_id,
     entity_type |-> IF IsPersonLabel(label) THEN "person" ELSE "object",
     label |-> label,
     t_start |-> window.t_start,
     t_end |-> window.t_end,
     mask_confidence |-> 510,
     overlay_uri |-> OverlayUri(clip.clip_id, track_id)]

\* AgenticVideoRAGEngine._detector_tracker_fallback: the tracklets.
_detector_tracker_fallback(window, clip) ==
    With(SortedLabels(ObjectsOf(FramesIn(clip.frames, window.t_start, window.t_end))
                        \cap FallbackLabels),
         LAMBDA labels :
             [i \in 1..Min2(2, Len(labels)) |->
                 FallbackTracklet(window, clip, labels[i],
                                  "FALLBACK_TRACK|" \o clip.clip_id \o "|" \o window.window_id
                                      \o "|" \o labels[i])])

FallbackOverlays(tracklets) ==
    [i \in 1..Len(tracklets) |->
        [key |-> tracklets[i].overlay_uri,
         value |-> "fallback_overlay:" \o tracklets[i].label]]

\* mean(values) as the fraction [sum, n] (mean([]) is 0.0).
MeanOf(values) ==
    IF values = <<>> THEN [sum |-> 0, n |-> 1]
    ELSE [sum |-> SumSeq(values), n |-> Len(values)]

\* a > b for two fractions [sum, n].
MeanGreater(a, b) == a.sum * b.n > b.sum * a.n

\* The body of the attempt loop after ground_window: the overlays are stored
\* and the best attempt so far is kept.
AttemptStep(acc, candidate_tracklets, median_conf) ==
    [artifacts |-> PutAll(acc.artifacts, MaskOverlays(candidate_tracklets)),
     best_tracklets |-> IF candidate_tracklets # <<>> /\ MeanGreater(median_conf, acc.best_score)
                        THEN candidate_tracklets ELSE acc.best_tracklets,
     best_score |-> IF candidate_tracklets # <<>> /\ MeanGreater(median_conf, acc.best_score)
                    THEN median_conf ELSE acc.best_score]

\* A loop that never breaks.
AttemptSucceeds_never(candidate_tracklets, threshold) == FALSE

\* `if median_conf >= threshold: break`
AttemptSucceeds(candidate_tracklets, threshold) ==
    /\ candidate_tracklets # <<>>
    /\ SumSeq([i \in 1..Len(candidate_tracklets) |-> candidate_tracklets[i].mask_confidence])
         >= threshold * Len(candidate_tracklets)

RECURSIVE AttemptLoop(_, _, _, _, _, _, _)
\* for attempt in range(max_retries + 1), with its break; acc is
\* [artifacts, best_tracklets, best_score].
AttemptLoop(attempt, acc, window, clip, variants, threshold, max_retries) ==
    IF attempt > max_retries THEN acc
    ELSE With(ground_window(window, clip, variants[Min2(attempt, Len(variants) - 1) + 1]),
              LAMBDA candidate_tracklets :
                  With(AttemptStep(acc, candidate_tracklets,
                                   MeanOf([i \in 1..Len(candidate_tracklets) |->
                                             candidate_tracklets[i].mask_confidence])),
                       LAMBDA next :
                           IF AttemptSucceeds(candidate_tracklets, threshold) THEN next
                           ELSE AttemptLoop(attempt + 1, next, window, clip, variants,
                                            threshold, max_retries)))

RECURSIVE CacheTrackTokens(_, _, _)
\* set_l2 for every tracklet at or above the mask-confidence threshold.
CacheTrackTokens(cache, tracklets, threshold) ==
    IF tracklets = <<>> THEN cache
    ELSE CacheTrackTokens(
             IF tracklets[1].mask_confidence >= threshold
             THEN set_l2(cache, "l2:" \o tracklets[1].track_id, tokenize(tracklets[1].label))
             ELSE cache,
             Tail(tracklets), threshold)

\* The end of one iteration of the stage-3 loop: fallback overlays stored,
\* the chosen tracklets cached at L2 and appended.
GroundingStep(acc, artifacts, fallback_tracklets, best_tracklets, threshold) ==
    [stores |-> [acc.stores EXCEPT
                    !.artifact_store = PutAll(artifacts, FallbackOverlays(fallback_tracklets)),
                    !.feature_cache = CacheTrackTokens(@, best_tracklets, threshold)],
     tracklets |-> acc.tracklets \o best_tracklets]

\* One iteration of the stage-3 loop after the attempts: the detector/tracker
\* fallback when the best attempt is below the threshold.
GroundWindow(acc, tried, window, clip, threshold) ==
    With(IF tried.best_score.sum < threshold * tried.best_score.n
         THEN _detector_tracker_fallback(window, clip) ELSE <<>>,
         LAMBDA fallback_tracklets :
             GroundingStep(acc, tried.artifacts, fallback_tracklets,
                           IF fallback_tracklets # <<>> THEN fallback_tracklets
                           ELSE tried.best_tracklets,
                           threshold))

RECURSIVE GroundingLoop(_, _, _, _)
\* The loop of _stage_3_spatial_grounding over the validated windows; acc is
\* [stores, tracklets].
GroundingLoop(validated_windows, acc, cfg, request) ==
    IF validated_windows = <<>> THEN acc
    ELSE With(LastWith(request.clips, LAMBDA c : c.clip_id, validated_windows[1].clip_id),
              LAMBDA clip :
                  With(AttemptLoop(0, [artifacts |-> acc.stores.artifact_store,
                                       best_tracklets |-> <<>>,
                                       best_score |-> [sum |-> -1000, n |-> 1]],
                                   validated_windows[1], clip,
                                   decompose(request.query_text),
                                   cfg.sam3_min_mask_confidence,
                                   cfg.sam3_retry_max_attempts),
                       LAMBDA tried :
                           GroundingLoop(Tail(validated_windows),
                                         GroundWindow(acc, tried, validated_windows[1], clip,
                                                      cfg.sam3_min_mask_confidence),
                                         cfg, request)))

_stage_3_spatial_grounding(st, cfg, request, validated_windows) ==
    GroundingLoop(validated_windows, [stores |-> st, tracklets |-> <<>>], cfg, request)

(***************************************************************************)
(* Stage 5: temporal localization (utils.py, adapters.py, pipeline.py)     *)
(***************************************************************************)
\* Temporal scores are kept in 1/ScoreScale of a thousandth, so that the
\* moving average over up to five samples is exact.
ScoreScale == 60

\* One sample of the moving average over values[start + 1 .. end].
WindowAverage(values, start, end) ==
    (SumSeq(SubSeq(values, start + 1, end)) * ScoreScale) \div (end - start)

\* The rest of smooth_curve once half_window is known.
SmoothWith(values, half_window) ==
    [i \in 1..Len(values) |->
        WindowAverage(values, Max2(0, (i - 1) - half_window),
                      Min2(Len(values), (i - 1) + half_window + 1))]

\* smooth_curve(values, window), values in thousandths, result scaled.
smooth_curve(values, window) ==
    IF window <= 1 \/ Len(values) <= 1
    THEN [i \in 1..Len(values) |-> values[i] * ScoreScale]
    ELSE SmoothWith(values, Max2(1, window \div 2))

\* The per-frame score of localize().
frame_score(frame, query_tokens) ==
    IF Range(tokenize_joined(frame.actions)) \cap query_tokens # {} THEN 1000
    ELSE IF frame.actions # <<>> THEN 300
    ELSE 100

\* The TemporalSegment localize() returns.
TemporalSegment(tracklet, clip, action, t_start, t_end, confidence, failure_flags) ==
    [segment_id |-> "SEG|" \o tracklet.track_id \o "|" \o ToString(t_start) \o "|"
                       \o ToString(t_end) \o "|" \o action,
     clip_id |-> clip.clip_id,
     camera_id |-> clip.camera_id,
     track_id |-> tracklet.track_id,
     action |-> action,
     t_start |-> t_start,
     t_end |-> t_end,
     confidence |-> confidence,
     failure_flags |-> failure_flags]

\* The end of localize(): the first span, or the whole tracklet when no span
\* was extracted.
SegmentOfSpans(tracklet, clip, action, spans, low_mask) ==
    IF spans = <<>>
    THEN TemporalSegment(tracklet, clip, action, tracklet.t_start, tracklet.t_end, 350,
                         low_mask \cup {"low_similarity"})
    ELSE TemporalSegment(tracklet, clip, action, spans[1].t_start, spans[1].t_end,
                         RoundDiv(spans[1].score_sum, spans[1].score_count * ScoreScale),
                         low_mask)

\* localize() for the frames of the tracklet's interval.
LocalizeFrames(tracklet, clip, query_tokens, frames, cfg) ==
    SegmentOfSpans(
        tracklet, clip,
        IF "exit" \in query_tokens THEN "person_exits_vehicle" ELSE "tracked_activity",
        _extract_spans([i \in 1..Len(frames) |-> frames[i].timestamp],
                       smooth_curve([i \in 1..Len(frames) |->
                                       frame_score(frames[i], query_tokens)],
                                    cfg.smoothing_window_size),
                       cfg.hysteresis_high * ScoreScale,
                       cfg.hysteresis_low * ScoreScale),
        IF tracklet.mask_confidence < cfg.sam3_min_mask_confidence
        THEN {"low_mask_confidence"} ELSE {})

\* TemporalGroundingAdapter.localize
localize(tracklet, clip, query_text, cfg) ==
    With(FramesIn(clip.frames, tracklet.t_start, tracklet.t_end),
         LAMBDA frames :
             LocalizeFrames(tracklet, clip, Range(tokenize(query_text)), frames, cfg))

\* An overlap test on open intervals: a shared endpoint does not count.
Overlapped_open(segments, segment) ==
    \E j \in 1..Len(segments) :
        /\ segments[j].segment_id # segment.segment_id
        /\ segments[j].clip_id = segment.clip_id
        /\ ~(segments[j].t_end <= segment.t_start \/ segments[j].t_start >= segment.t_end)

\* `other.segment_id != segment.segment_id and other.clip_id == segment.clip_id
\*  and not (other.t_end < segment.t_start or other.t_start > segment.t_end)`
Overlapped(segments, segment) ==
    \E j \in 1..Len(segments) :
        /\ segments[j].segment_id # segment.segment_id
        /\ segments[j].clip_id = segment.clip_id
        /\ ~(segments[j].t_end < segment.t_start \/ segments[j].t_start > segment.t_end)

\* The ambiguity pass at the end of _stage_5_temporal_localization.
FlagAmbiguity(segments) ==
    [i \in 1..Len(segments) |->
        IF Overlapped(segments, segments[i])
        THEN [segments[i] EXCEPT !.failure_flags = @ \cup {"multi_actor_ambiguity"}]
        ELSE segments[i]]

\* localize() for each candidate tracklet.
LocalizeAll(cfg, request, candidate_tracklets) ==
    [i \in 1..Len(candidate_tracklets) |->
        localize(candidate_tracklets[i],
                 LastWith(request.clips, LAMBDA c : c.clip_id,
                          candidate_tracklets[i].clip_id),
                 request.query_text, cfg)]

\* AgenticVideoRAGEngine._stage_5_temporal_localization
_stage_5_temporal_localization(cfg, request, tracklets) ==
    With(SelectSeq(tracklets, LAMBDA t : t.entity_type = "person"),
         LAMBDA person_tracklets :
             With(LocalizeAll(cfg, request,
                              IF person_tracklets # <<>> THEN person_tracklets
                              ELSE tracklets),
                  LAMBDA segments : FlagAmbiguity(segments)))

(***************************************************************************)
(* Stage 6: graph memory and evidence (pipeline.py)                        *)
(***************************************************************************)
\* The first frame-index record of the track's clip within the segment.
MatchingRecords(frame_index, track, segment) ==
    SelectSeq(frame_index,
              LAMBDA r : /\ r.clip_id = track.clip_id
                         /\ segment.t_start <= r.timestamp
                         /\ r.timestamp <= segment.t_end)

\* stable_id("EMB", track_id, "fallback") and the frame-index lookup before it.
EvidenceEmbeddingId(frame_index, track, segment) ==
    With(MatchingRecords(frame_index, track, segment),
         LAMBDA matching :
             IF matching # <<>> THEN matching[1].embedding_id
             ELSE stable_id2("EMB", track.track_id, "fallback"))

EvidenceRef(st, cfg, track, segment) ==
    [clip_id |-> track.clip_id,
     camera_id |-> track.camera_id,
     frame_range |-> <<segment.t_start, segment.t_end>>,
     overlay_uri |-> track.overlay_uri,
     embedding_id |-> EvidenceEmbeddingId(st.frame_index, track, segment),
     model_version |-> cfg.spec_version]

_build_evidence_refs_unregistered(st, cfg, track, segment) ==
    [stores |-> st, evidence_refs |-> registry_get(st.evidence_registry, track.track_id)]

\* AgenticVideoRAGEngine._build_evidence_refs_for_track: [stores, evidence_refs].
_build_evidence_refs_for_track(st, cfg, track, segment) ==
    With(registry_append(st.evidence_registry, track.track_id,
                         EvidenceRef(st, cfg, track, segment)),
         LAMBDA registry :
             [stores |-> [st EXCEPT !.evidence_registry = registry],
              evidence_refs |-> registry_get(registry, track.track_id)])

GraphEdge(edge_id, edge_type, source_id, target_id, t_start, t_end, camera_id, confidence, evidence_refs) ==
    [edge_id |-> edge_id, edge_type |-> edge_type, source_id |-> source_id,
     target_id |-> target_id, t_start |-> t_start, t_end |-> t_end,
     camera_id |-> camera_id, confidence |-> confidence, evidence_refs |-> evidence_refs]

\* A graph store that forgets the edge it is handed.
add_edge_dropped(st, edge) == st

\* GraphStore.add_edge
add_edge(st, edge) ==
    [st EXCEPT !.graph_store.edges = DictPut(@, edge.edge_id, edge)]

RECURSIVE UpsertAll(_, _)
\* GraphStore.upsert_node for a list of nodes, in order.
UpsertAll(nodes, new_nodes) ==
    IF new_nodes = <<>> THEN nodes
    ELSE UpsertAll(DictPut(nodes, new_nodes[1].node_id, new_nodes[1]), Tail(new_nodes))

EntityNode(link) ==
    [node_id |-> link.entity_id,
     node_type |-> IF link.entity_type = "person" THEN "PersonEntityID"
                   ELSE "ObjectClusterID",
     properties |-> [label |-> link.label, confidence |-> link.confidence,
                     resolved |-> link.resolved]]

TrackNodes(track) ==
    << [node_id |-> track.track_id, node_type |-> "TrackID",
        properties |-> [clip_id |-> track.clip_id, camera_id |-> track.camera_id,
                        label |-> track.label]],
       [node_id |-> track.camera_id, node_type |-> "CameraID",
        properties |-> [camera_id |-> track.camera_id]] >>

\* entity_by_track.get(track_id): <<link>> for the last link listing the
\* track, <<>> for None.
EntityOfTrack(entity_links, track_id) ==
    With(SelectSeq(entity_links, LAMBDA link : track_id \in Range(link.track_ids)),
         LAMBDA listing :
             IF listing = <<>> THEN <<>> ELSE <<listing[Len(listing)]>>)

\* The edge is added to the graph store and to the local edge list.
WithEdge(built_stores, edges, edge) ==
    [stores |-> add_edge(built_stores, edge), edges |-> Append(edges, edge)]

\* The object links of the tracklets sharing the segment's clip and the
\* track's window.
ObjectLinks(tracklets, entity_links, segment, track) ==
    With(SelectSeq(tracklets,
                   LAMBDA t : /\ t.clip_id = segment.clip_id
                              /\ t.window_id = track.window_id
                              /\ t.entity_type = "object"),
         LAMBDA same_window_objects :
             SelectSeq(Flatten([i \in 1..Len(same_window_objects) |->
                                  EntityOfTrack(entity_links,
                                                same_window_objects[i].track_id)]),
                       LAMBDA link : link.entity_type = "object"))

\* One EXITS edge: evidence is built, the edge stored and appended.
ExitsEdge(acc, cfg, segment, track, person_id, object_id) ==
    With(_build_evidence_refs_for_track(acc.stores, cfg, track, segment),
         LAMBDA built :
             WithEdge(built.stores, acc.edges,
                      GraphEdge("EDGE|EXITS|" \o person_id \o "|" \o object_id \o "|"
                                    \o segment.segment_id,
                                "EXITS", person_id, object_id,
                                segment.t_start, segment.t_end, segment.camera_id,
                                segment.confidence, built.evidence_refs)))

\* One iteration of the EXITS loop.
ExitsStep(acc, cfg, segment, track, person_link, object_links) ==
    IF person_link = <<>> \/ person_link[1].entity_type # "person" \/ object_links = <<>>
    THEN acc
    ELSE ExitsEdge(acc, cfg, segment, track, person_link[1].entity_id,
                   object_links[1].entity_id)

RECURSIVE ExitsLoop(_, _, _, _, _)
\* The loop building EXITS edges over the temporal segments; acc is
\* [stores, edges].
ExitsLoop(segments, acc, cfg, tracklets, entity_links) ==
    IF segments = <<>> THEN acc
    ELSE With(LastWith(tracklets, LAMBDA t : t.track_id, segments[1].track_id),
              LAMBDA track :
                  ExitsLoop(Tail(segments),
                            ExitsStep(acc, cfg, segments[1], track,
                                      EntityOfTrack(entity_links, segments[1].track_id),
                                      ObjectLinks(tracklets, entity_links, segments[1],
                                                  track)),
                            cfg, tracklets, entity_links))

\* A MOVES_TO edge built only for a resolved link.
MovesEdge_resolved_only(acc, cfg, link, curr) ==
    IF link.resolved
    THEN WithEdge(acc.stores, acc.edges,
                  GraphEdge("EDGE|MOVES_TO|" \o link.entity_id \o "|" \o curr.camera_id
                                \o "|" \o curr.track_id,
                            "MOVES_TO", link.entity_id, curr.camera_id,
                            curr.t_start, curr.t_end, curr.camera_id, 800,
                            <<[overlay_uri |-> curr.overlay_uri]>>))
    ELSE acc

\* One MOVES_TO edge for the later track of a pair.
MovesEdge(acc, cfg, link, curr) ==
    With(_build_evidence_refs_for_track(
             acc.stores, cfg, curr,
             [segment_id |-> stable_id2("TMPSEG", curr.track_id, ""),
              t_start |-> curr.t_start, t_end |-> curr.t_end]),
         LAMBDA built :
             WithEdge(built.stores, acc.edges,
                      GraphEdge("EDGE|MOVES_TO|" \o link.entity_id \o "|" \o curr.camera_id
                                    \o "|" \o curr.track_id,
                                "MOVES_TO", link.entity_id, curr.camera_id,
                                curr.t_start, curr.t_end, curr.camera_id,
                                IF link.resolved THEN 800 ELSE 450, built.evidence_refs)))

RECURSIVE MovesPairs(_, _, _, _, _)
\* for prev, curr in zip(linked_tracks, linked_tracks[1:]) of one person link.
MovesPairs(k, linked_tracks, acc, cfg, link) ==
    IF k > Len(linked_tracks) THEN acc
    ELSE MovesPairs(k + 1, linked_tracks, MovesEdge(acc, cfg, link, linked_tracks[k]),
                    cfg, link)

\* The link's tracks that are among the tracklets, sorted by (t_start, camera_id).
LinkedTracks(link, tracklets) ==
    With(SelectSeq(link.track_ids,
                   LAMBDA id : id \in { tracklets[i].track_id : i \in 1..Len(tracklets) }),
         LAMBDA track_ids :
             SortStable([i \in 1..Len(track_ids) |->
                           LastWith(tracklets, LAMBDA t : t.track_id, track_ids[i])],
                        StartCameraKey))

RECURSIVE MovesLoop(_, _, _, _)
\* The loop building MOVES_TO edges over the entity links.
MovesLoop(links, acc, cfg, tracklets) ==
    IF links = <<>> THEN acc
    ELSE IF links[1].entity_type # "person" THEN MovesLoop(Tail(links), acc, cfg, tracklets)
    ELSE MovesLoop(Tail(links),
                   MovesPairs(2, LinkedTracks(links[1], tracklets), acc, cfg, links[1]),
                   cfg, tracklets)

returned_edges_from_store(local_edges, st) == DictValues(st.graph_store.edges)

\* The edge list _stage_6_graph_memory returns: the edges built in this call.
returned_edges(local_edges, st) == local_edges

\* upsert_node for every entity link, then for every tracklet and its camera.
UpsertGraphNodes(nodes, tracklets, entity_links) ==
    UpsertAll(UpsertAll(nodes, [i \in 1..Len(entity_links) |-> EntityNode(entity_links[i])]),
              Flatten([i \in 1..Len(tracklets) |-> TrackNodes(tracklets[i])]))

\* The return statement of _stage_6_graph_memory.
GraphMemoryResult(moves) ==
    [stores |-> moves.stores,
     graph_nodes |-> DictValues(moves.stores.graph_store.nodes),
     graph_edges |-> returned_edges(moves.edges, moves.stores)]

\* AgenticVideoRAGEngine._stage_6_graph_memory: [stores, graph_nodes, graph_edges].
_stage_6_graph_memory(st, cfg, tracklets, entity_links, temporal_segments) ==
    With(ExitsLoop(temporal_segments,
                   [stores |-> [st EXCEPT !.graph_store.nodes =
                                   UpsertGraphNodes(@, tracklets, entity_links)],
                    edges |-> <<>>],
                   cfg, tracklets, entity_links),
         LAMBDA exits :
             With(MovesLoop(entity_links, exits, cfg, tracklets),
                  LAMBDA moves : GraphMemoryResult(moves)))

(***************************************************************************)
(* Stage 7: grounded synthesis (pipeline.py, adapters.py)                  *)
(***************************************************************************)
CONSERVATIVE_SUMMARY ==
    "Insufficient verified evidence to answer confidently. "
        \o "Returning conservative output with uncertainty."

\* The ClaimRecord _stage_7_multimodal_synthesis builds for one edge.
ClaimRecord(edge) ==
    [claim_id |-> stable_id2("CLAIM", edge.edge_id, ""),
     text |-> IF edge.edge_type = "EXITS"
              THEN "Person entity " \o edge.source_id \o " exited object entity "
                     \o edge.target_id \o " at camera " \o edge.camera_id \o " between "
                     \o ToString(edge.t_start) \o "s and " \o ToString(edge.t_end) \o "s."
              ELSE "Person entity " \o edge.source_id \o " moved to camera "
                     \o edge.target_id \o " during " \o ToString(edge.t_start) \o "s to "
                     \o ToString(edge.t_end) \o "s.",
     entity_ids |-> <<edge.source_id, edge.target_id>>,
     camera_id |-> edge.camera_id,
     t_start |-> edge.t_start,
     t_end |-> edge.t_end,
     confidence |-> edge.confidence,
     evidence_refs |-> edge.evidence_refs]

RECURSIVE JoinLines(_, _)
\* " ".join(f"{idx + 1}. {claim.text}" ...), from claim k on.
JoinLines(claims, k) ==
    IF k > Len(claims) THEN ""
    ELSE (IF k > 1 THEN " " ELSE "") \o ToString(k) \o ". " \o claims[k].text
         \o JoinLines(claims, k + 1)

\* One line of the evidence appendix.
AppendixLine(claim) ==
    "claim=" \o claim.claim_id \o " camera=" \o claim.camera_id
        \o " t=(" \o ToString(claim.t_start) \o "," \o ToString(claim.t_end)
        \o ") evidence=" \o ToString(Len(claim.evidence_refs))

\* A loop that counts a claim without evidence as redacted and keeps it.
GroundedLoop_keep_all(claims, acc) ==
    [grounded_claims |-> acc.grounded_claims \o claims,
     redacted |-> acc.redacted
                    + Len(SelectSeq(claims, LAMBDA claim : claim.evidence_refs = <<>>))]

RECURSIVE GroundedLoop(_, _)
\* The loop of synthesize over the claims; acc is [grounded_claims, redacted].
GroundedLoop(claims, acc) ==
    IF claims = <<>> THEN acc
    ELSE GroundedLoop(Tail(claims),
                      IF claims[1].evidence_refs = <<>>
                      THEN [acc EXCEPT !.redacted = @ + 1]
                      ELSE [acc EXCEPT !.grounded_claims = Append(@, claims[1])])

\* The SynthesisOutput built after the loop.
SynthesisResult(kept) ==
    [summary |-> IF kept.grounded_claims = <<>> THEN CONSERVATIVE_SUMMARY
                 ELSE JoinLines(kept.grounded_claims, 1),
     claims |-> kept.grounded_claims,
     evidence_appendix |-> [i \in 1..Len(kept.grounded_claims) |->
                              AppendixLine(kept.grounded_claims[i])],
     redacted_claim_count |-> kept.redacted]

\* MultimodalSynthesizerAdapter.synthesize
synthesize(query_text, claims) ==
    SynthesisResult(GroundedLoop(claims, [grounded_claims |-> <<>>, redacted |-> 0]))

_stage_7_multimodal_synthesis(query_text, graph_edges) ==
    synthesize(query_text, [i \in 1..Len(graph_edges) |-> ClaimRecord(graph_edges[i])])

(***************************************************************************)
(* run(): the seven stages in order (pipeline.py)                          *)
(***************************************************************************)
\* The keys of the state _new_state builds and run() fills.
StateKeys == {"query_id", "normalized_query", "candidate_windows", "grounded_tracks",
              "entity_links", "temporal_segments", "evidence_package"}

REQUIRED_ORCHESTRATION_STATE_KEYS == StateKeys

\* The fixed key set checked, whatever the contract was built with.
validate_state_snapshot_fixed(required_state_keys, snapshot_keys) ==
    REQUIRED_ORCHESTRATION_STATE_KEYS \ snapshot_keys = {}

\* OrchestratorContract.validate_state_snapshot: TRUE when it returns.
validate_state_snapshot(required_state_keys, snapshot_keys) ==
    required_state_keys \ snapshot_keys = {}

\* Stage 1 on the stores: the keyframes of the request are appended.
_stage_1_activity_ingestion(st, request) ==
    [stores |-> [st EXCEPT !.frame_index = @ \o Stage1Keyframes(request.clips)],
     active_windows |-> Stage1Windows(request.clips)]

\* The PipelineResult run() returns. Stage durations (wall-clock
\* measurements) are left out of the metrics.
PipelineResult(request, active_windows, validated_windows, tracklets, entity_links, temporal_segments, s6, synthesis) ==
    [query_id |-> request.query_id,
     query_text |-> request.query_text,
     active_windows |-> active_windows,
     validated_windows |-> validated_windows,
     tracklets |-> tracklets,
     entity_links |-> entity_links,
     temporal_segments |-> temporal_segments,
     graph_nodes |-> s6.graph_nodes,
     graph_edges |-> s6.graph_edges,
     synthesis |-> synthesis,
     metrics |-> [cache_hits |-> s6.stores.feature_cache.hits,
                  cache_misses |-> s6.stores.feature_cache.misses]]

\* The end of run(): the state snapshot is validated, then the result built.
RunOutcome(cfg, request, stores_after, s2, result) ==
    [stores |-> stores_after,
     outcome |-> IF validate_state_snapshot(cfg.required_state_keys, StateKeys)
                 THEN "ok" ELSE "ValueError",
     result |-> IF validate_state_snapshot(cfg.required_state_keys, StateKeys)
                THEN result ELSE [query_id |-> request.query_id],
     fallback_taken |-> s2.fallback_taken,
     scored |-> s2.scored,
     admitted |-> s2.admitted,
     selected |-> s2.validated_windows,
     built_edges |-> result.graph_edges]

\* Stages 4 to 7 of run(), after grounding.
RunAfterGrounding(cfg, request, active_windows, s2, s3) ==
    With(resolve(s3.tracklets, request.camera_topology,
                 cfg.max_cross_camera_travel_seconds),
         LAMBDA entity_links :
    With(_stage_5_temporal_localization(cfg, request, s3.tracklets),
         LAMBDA temporal_segments :
    With(_stage_6_graph_memory(s3.stores, cfg, s3.tracklets, entity_links,
                               temporal_segments),
         LAMBDA s6 :
             RunOutcome(cfg, request, s6.stores, s2,
                        PipelineResult(request, active_windows, s2.validated_windows,
                                       s3.tracklets, entity_links, temporal_segments, s6,
                                       _stage_7_multimodal_synthesis(request.query_text,
                                                                     s6.graph_edges))))))

\* AgenticVideoRAGEngine.run: [stores, outcome, result], the stage-2 locals
\* [fallback_taken, scored, admitted, selected] and the edges stage 6 built.
run(st, cfg, request) ==
    With(_stage_1_activity_ingestion(st, request),
         LAMBDA s1 :
    With(_stage_2_temporal_retrieval(s1.stores, cfg, request, s1.active_windows),
         LAMBDA s2 :
    With(_stage_3_spatial_grounding(s2.stores, cfg, request, s2.validated_windows),
         LAMBDA s3 :
             RunAfterGrounding(cfg, request, s1.active_windows, s2, s3))))

(***************************************************************************)
(* Configurations and requests the engine is run on                        *)
(***************************************************************************)
MaxRuns == 2

\* The digest functions of the family.
HashSalts == {1, 2, 3}

\* RuntimeConfig: the constants run() reads. The first is in the range of
\* the shipped defaults; the second has tight retrieval limits, no retry and
\* a short travel time.
DefaultConfig ==
      [spec_version |-> "v1",
       required_state_keys |-> REQUIRED_ORCHESTRATION_STATE_KEYS,
       stage2_initial_top_k_windows |-> 20,
       stage2_validated_top_k_windows |-> 5,
       stage2_min_validation_confidence |-> 550,
       sam3_min_mask_confidence |-> 600,
       sam3_retry_max_attempts |-> 2,
       max_cross_camera_travel_seconds |-> 10,
       smoothing_window_size |-> 3,
       hysteresis_high |-> 600,
       hysteresis_low |-> 400]

StrictConfig ==
      [spec_version |-> "v1",
       required_state_keys |-> REQUIRED_ORCHESTRATION_STATE_KEYS,
       stage2_initial_top_k_windows |-> 2,
       stage2_validated_top_k_windows |-> 1,
       stage2_min_validation_confidence |-> 700,
       sam3_min_mask_confidence |-> 900,
       sam3_retry_max_attempts |-> 0,
       max_cross_camera_travel_seconds |-> 1,
       smoothing_window_size |-> 1,
       hysteresis_high |-> 800,
       hysteresis_low |-> 300]

\* A key a configuration may require on top of the fixed set: the schema
\* accepts every list that holds REQUIRED_ORCHESTRATION_STATE_KEYS.
ExtraStateKey == "operator_notes"

\* A configuration the schema accepts (validate_state_contract only asks for
\* a superset of the fixed keys): the defaults with one more required key.
ExtraKeyConfig ==
    [DefaultConfig EXCEPT !.required_state_keys = @ \cup {ExtraStateKey}]

ConfigChoices == {DefaultConfig, StrictConfig, ExtraKeyConfig}

\* An exterior clip: the SUV arrives, a person gets out of it.
ExteriorClip ==
    Clip("clip_ext", "camA", "static", "exterior",
         << FrameObservation(0, <<"red_suv">>, <<>>, 300),
            FrameObservation(1, <<"red_suv", "person_p1">>, <<"person_exits_suv">>, 300),
            FrameObservation(2, <<"red_suv", "person_p1">>, <<>>, 300),
            FrameObservation(3, <<>>, <<>>, 300) >>,
         FALSE, <<>>)

\* An interior clip: the same person walks by later on another camera.
InteriorClip ==
    Clip("clip_int", "camB", "static", "interior",
         << FrameObservation(4, <<>>, <<>>, 300),
            FrameObservation(5, <<"person_p1">>, <<"person_walks">>, 300),
            FrameObservation(6, <<"person_p1">>, <<>>, 300) >>,
         FALSE, <<>>)

\* Another recording under the exterior clip's id, with other content over
\* the same span.
ExteriorClipAlt ==
    Clip("clip_ext", "camA", "static", "exterior",
         << FrameObservation(0, <<"white_truck">>, <<>>, 300),
            FrameObservation(1, <<"white_truck", "person_p2">>, <<"person_walks">>, 300),
            FrameObservation(2, <<"person_p2">>, <<>>, 300) >>,
         FALSE, <<>>)

\* A clip with nothing of interest, and one with a metadata window that none
\* of its frames falls into.
QuietClip ==
    Clip("clip_quiet", "camC", "moving", "exterior",
         << FrameObservation(0, <<"blue_sedan">>, <<>>, 800) >>, FALSE, <<>>)

MetaClip ==
    Clip("clip_meta", "camC", "static", "exterior",
         << FrameObservation(5, <<"red_suv">>, <<>>, 300) >>,
         TRUE, <<[t_start |-> 0, t_end |-> 1]>>)

QueryRequest(query_id, query_text, clips, camera_topology) ==
    [query_id |-> query_id, query_text |-> query_text, clips |-> clips,
     camera_topology |-> camera_topology]

NoTopology == [c \in Cameras |-> {}]

RequestCatalog ==
    { QueryRequest("q_suv", "find the suv and track the person",
                   <<ExteriorClip, InteriorClip>>, NoTopology),
      QueryRequest("q_empty", "find the suv", <<>>, NoTopology),
      QueryRequest("q_alt", "track the person", <<ExteriorClipAlt>>, NoTopology),
      QueryRequest("q_quiet", "show activity", <<QuietClip, MetaClip>>, NoTopology),
      QueryRequest("q_broad", "show activity", <<ExteriorClip>>, NoTopology) }

IdleEngine ==
    /\ config = DefaultConfig
    /\ hash_salt = 1
    /\ stores = EmptyStores
    /\ runs = <<>>
    /\ threads = <<>>

(***************************************************************************)
(* Orchestration contract: orchestrator_contract.py                        *)
(***************************************************************************)
Stages == {"stage_1", "stage_2", "stage_3", "stage_4", "stage_5", "stage_6", "stage_7"}

TRANSITION_GRAPH ==
    [s \in Stages |->
        CASE s = "stage_1" -> {"stage_2"}
          [] s = "stage_2" -> {"stage_2", "stage_3"}
          [] s = "stage_3" -> {"stage_3", "stage_4"}
          [] s = "stage_4" -> {"stage_4", "stage_5"}
          [] s = "stage_5" -> {"stage_5", "stage_6"}
          [] s = "stage_6" -> {"stage_6", "stage_7"}
          [] s = "stage_7" -> {}]

MappedHooks == {"low_retrieval_confidence", "low_mask_confidence",
                "identity_ambiguity", "missing_evidence"}

HOOK_TO_STAGE ==
    [h \in MappedHooks |->
        CASE h = "low_retrieval_confidence" -> "stage_2"
          [] h = "low_mask_confidence" -> "stage_3"
          [] h = "identity_ambiguity" -> "stage_4"
          [] h = "missing_evidence" -> "stage_6"]

\* A hook name a configuration may declare although HOOK_TO_STAGE has no
\* entry for it (branching_hooks is a free list of strings in the schema).
UnmappedHook == "operator_review"

HookNames == MappedHooks \cup {UnmappedHook}

\* The enabled-hook sets the runtime is checked under; the schema only
\* requires the list to be non-empty.
HookConfigs ==
    { {"low_mask_confidence"},
      {"low_retrieval_confidence", "identity_ambiguity", UnmappedHook},
      MappedHooks }

can_transition_any(current_stage, next_stage) == TRUE

\* The graph with a retry self-loop on the last stage as well.
can_transition_terminal_retry(current_stage, next_stage) ==
    \/ next_stage \in TRANSITION_GRAPH[current_stage]
    \/ current_stage = "stage_7" /\ next_stage = "stage_7"

can_transition(current_stage, next_stage) ==
    next_stage \in TRANSITION_GRAPH[current_stage]

\* next_stage_for_hook: the stage, or "ValueError" when the hook is not
\* enabled or has no mapping.
next_stage_for_hook_unchecked(hooks, hook) ==
    IF hook \in DOMAIN HOOK_TO_STAGE THEN HOOK_TO_STAGE[hook] ELSE "stage_2"

next_stage_for_hook(hooks, hook) ==
    IF hook \notin hooks THEN "ValueError"
    ELSE IF hook \notin DOMAIN HOOK_TO_STAGE THEN "ValueError"
    ELSE HOOK_TO_STAGE[hook]

(***************************************************************************)
(* Orchestration runtime: orchestrator_runtime.py                          *)
(***************************************************************************)
MaxEvents == 2

\* The free-text reason callers pass to transition().
Reasons == {"forward"}

TransitionEvent(from_stage, to_stage, reason) ==
    [from_stage |-> from_stage, to_stage |-> to_stage, reason |-> reason]

\* A transition that keeps only the newest event.
transition_overwrite(log, current_stage, next_stage, reason) ==
    IF ~can_transition(current_stage, next_stage)
    THEN [events |-> log, result |-> "ValueError"]
    ELSE [events |-> <<TransitionEvent(current_stage, next_stage, reason)>>,
          result |-> next_stage]

\* The effect of OrchestrationRuntime.transition on the log and its result.
transition(log, current_stage, next_stage, reason) ==
    IF ~can_transition(current_stage, next_stage)
    THEN [events |-> log, result |-> "ValueError"]
    ELSE [events |-> Append(log, TransitionEvent(current_stage, next_stage, reason)),
          result |-> next_stage]

\* The effect of OrchestrationRuntime.apply_branching_hook.
apply_branching_hook(log, hooks, current_stage, hook) ==
    LET next_stage == next_stage_for_hook(hooks, hook)
    IN IF next_stage = "ValueError"
       THEN [events |-> log, result |-> "ValueError"]
       ELSE transition(log, current_stage, next_stage, "hook:" \o hook)

NoCall == [op |-> "none", current_stage |-> "stage_1", arg |-> "stage_1"]

NoRet == [op |-> "none"]

IdleRuntime ==
    /\ branching_hooks = MappedHooks
    /\ events = <<>>
    /\ rt_call = NoCall
    /\ rt_result = "none"

IdleFn == arg = NoRet /\ ret = NoRet

InitRuntime ==
    /\ branching_hooks \in HookConfigs
    /\ events = <<>>
    /\ rt_call = NoCall
    /\ rt_result = "none"
    /\ IdleFn
    /\ IdleEngine

Transition(current_stage, next_stage, reason) ==
    LET r == transition(events, current_stage, next_stage, reason)
    IN /\ Len(events) < MaxEvents
       /\ events' = r.events
       /\ rt_call' = [op |-> "transition", current_stage |-> current_stage,
                      arg |-> next_stage]
       /\ rt_result' = r.result
       /\ UNCHANGED <<branching_hooks, fnVars, engVars>>

ApplyBranchingHook(current_stage, hook) ==
    LET r == apply_branching_hook(events, branching_hooks, current_stage, hook)
    IN /\ Len(events) < MaxEvents
       /\ events' = r.events
       /\ rt_call' = [op |-> "apply_branching_hook", current_stage |-> current_stage,
                      arg |-> hook]
       /\ rt_result' = r.result
       /\ UNCHANGED <<branching_hooks, fnVars, engVars>>

NextRuntime ==
    \/ \E c \in Stages, n \in Stages, r \in Reasons : Transition(c, n, r)
    \/ \E c \in Stages, h \in HookNames : ApplyBranchingHook(c, h)

SpecRuntime == InitRuntime /\ [][NextRuntime]_vars

\* C1: transition(current, next, reason) with (current, next) not an edge of
\* the stage-transition graph fails with an error and leaves the transition
\* log exactly as it was, whatever the log held before.
C1_InvalidTransitionRejected ==
    [][(rt_call'.op = "transition"
          /\ rt_call'.arg \notin TRANSITION_GRAPH[rt_call'.current_stage])
        => (rt_result' = "ValueError" /\ events' = events)]_vars

\* A failed stage_1 -> stage_3 call on a log that already holds an event.
C1_Witness ==
    /\ rt_call = [op |-> "transition", current_stage |-> "stage_1", arg |-> "stage_3"]
    /\ rt_result = "ValueError"
    /\ Len(events) >= 1

\* C10: requesting a hook that the configuration does not enable, or that
\* HOOK_TO_STAGE does not map, fails with an error; through
\* apply_branching_hook the transition log is left unchanged.
C10_BadHookRejected ==
    [][/\ \A h \in HookNames :
            (h \notin branching_hooks \/ h \notin MappedHooks)
                => next_stage_for_hook(branching_hooks, h) = "ValueError"
       /\ (rt_call'.op = "apply_branching_hook"
              /\ (rt_call'.arg \notin branching_hooks \/ rt_call'.arg \notin MappedHooks))
            => (rt_result' = "ValueError" /\ events' = events)]_vars

\* An enabled but unmapped hook was requested and refused on a non-empty log.
C10_Witness ==
    /\ rt_call.op = "apply_branching_hook"
    /\ rt_call.arg = UnmappedHook
    /\ UnmappedHook \in branching_hooks
    /\ rt_result = "ValueError"
    /\ Len(events) >= 1

(***************************************************************************)
(* Specification: stage 1 applied to one clip                              *)
(***************************************************************************)
InitRoute ==
    /\ IdleRuntime
    /\ IdleEngine
    /\ arg \in RouteClips
    /\ ret = NoRet

Stage1OnClip ==
    /\ ret = NoRet
    /\ ret' = [op |-> "stage_1", route_id |-> choose_route(arg),
               active_windows |-> Stage1Windows(<<arg>>)]
    /\ UNCHANGED <<rtVars, arg, engVars>>

NextRoute == Stage1OnClip

SpecRoute == InitRoute /\ [][NextRoute]_vars

\* The route the stated priority order gives, with `hint` as the metadata test.
PriorityRoute(clip, hint) ==
    IF hint THEN "meta_sync"
    ELSE IF clip.camera_type = "moving" THEN "sig_ex_adaptive"
    ELSE IF clip.frames # <<>>
            /\ SumSeq([i \in 1..Len(clip.frames) |-> clip.frames[i].background_motion])
                 > 550 * Len(clip.frames)
         THEN "bg_motion_trigger"
    ELSE "cv_state"

\* C9 as stated: meta_sync when the metadata carries a motion-vector or an
\* active-window hint, else moving camera, else mean background motion above
\* 0.55, else cv_state; every window of the clip carries that route.
C9_Original ==
    ret.op = "stage_1" =>
        /\ ret.route_id = PriorityRoute(arg, arg.has_motion_vectors \/ arg.active_windows # <<>>)
        /\ \A i \in 1..Len(ret.active_windows) : ret.active_windows[i].route_id = ret.route_id

\* C9 amended: only the motion-vector flag selects meta_sync (an active-window
\* list alone does not); the rest of the priority order is as stated, and
\* every window of the clip carries the clip's one route.
C9_RoutePriority ==
    ret.op = "stage_1" =>
        /\ ret.route_id = PriorityRoute(arg, arg.has_motion_vectors)
        /\ \A i \in 1..Len(ret.active_windows) : ret.active_windows[i].route_id = ret.route_id

\* A static clip with no motion-vector flag whose mean motion is above 0.55
\* was routed to bg_motion_trigger and produced a window.
C9_Witness ==
    /\ ret.op = "stage_1"
    /\ ~arg.has_motion_vectors
    /\ arg.active_windows # <<>>
    /\ arg.camera_type = "static"
    /\ ret.route_id = "bg_motion_trigger"
    /\ Len(ret.active_windows) >= 1

(***************************************************************************)
(* Specification: stage 4 applied to a list of tracklets                   *)
(***************************************************************************)
InitResolve ==
    /\ IdleRuntime
    /\ IdleEngine
    /\ \E ts \in ResolveInputs, topo \in Topologies, mt \in TravelChoices :
          arg = [tracklets |-> ts, camera_topology |-> topo, max_travel |-> mt]
    /\ ret = NoRet

Stage4OnTracklets ==
    /\ ret = NoRet
    /\ ret' = [op |-> "stage_4",
               entity_links |-> resolve(arg.tracklets, arg.camera_topology, arg.max_travel)]
    /\ UNCHANGED <<rtVars, arg, engVars>>

NextResolve == Stage4OnTracklets

SpecResolve == InitResolve /\ [][NextResolve]_vars

\* The person tracklets of one (lower-cased) label, sorted by (start, camera).
SortedOfLabel(label) ==
    SortStable(GroupItems(arg.tracklets, "person", label), StartCameraKey)

\* Every consecutive pair on two different cameras is an adjacency of the
\* source camera or has a gap within the maximum travel time.
AllPairsPlausible(items) ==
    \A i \in 1..(Len(items) - 1) :
        items[i].camera_id # items[i + 1].camera_id =>
            \/ items[i + 1].camera_id \in Neighbors(arg.camera_topology, items[i].camera_id)
            \/ Max2(0, items[i + 1].t_start - items[i].t_end) <= arg.max_travel

\* C6: a person link is resolved with confidence 0.87 exactly when every
\* consecutive pair of its label's tracklets, sorted by (start time, camera
\* id), that changes camera goes to a declared neighbour of the source camera
\* or has a gap max(0, next.t_start - prev.t_end) within the maximum travel
\* time; otherwise it is unresolved with confidence 0.46.
C6_PersonResolution ==
    ret.op = "stage_4" =>
        \A i \in 1..Len(ret.entity_links) :
            LET link == ret.entity_links[i]
            IN link.entity_type = "person" =>
                 IF AllPairsPlausible(SortedOfLabel(link.label))
                 THEN link.resolved /\ link.confidence = 870
                 ELSE ~link.resolved /\ link.confidence = 460

\* The ambiguous case: two detections of one label on cameras with no
\* declared adjacency, further apart than the maximum travel time, came out
\* unresolved, while another label in the same call came out resolved.
C6_Witness ==
    /\ ret.op = "stage_4"
    /\ \A c \in DOMAIN arg.camera_topology : arg.camera_topology[c] = {}
    /\ \E i, j \in 1..Len(ret.entity_links) :
          /\ ~ret.entity_links[i].resolved
          /\ ret.entity_links[i].confidence = 460
          /\ Len(ret.entity_links[i].track_ids) = 2
          /\ ret.entity_links[j].resolved
          /\ ret.entity_links[j].confidence = 870

(***************************************************************************)
(* Specification: _extract_spans run sample by sample                      *)
(***************************************************************************)
InitSpans ==
    /\ IdleRuntime
    /\ IdleEngine
    /\ arg \in SpanInputs
    /\ ret = NoRet

\* Entering the loop.
SpansBegin ==
    /\ ret = NoRet
    /\ ret' = [op |-> "extract_spans", pos |-> 0, st |-> SpanLoopInit(arg.timestamps),
               done |-> FALSE, spans |-> <<>>]
    /\ UNCHANGED <<rtVars, arg, engVars>>

\* One loop iteration, on sample pos + 1.
SpansSample ==
    /\ ret.op = "extract_spans"
    /\ ~ret.done
    /\ ret.pos < Len(arg.scores)
    /\ ret' = [ret EXCEPT !.pos = @ + 1,
                          !.st = SpanLoopStep(ret.st, arg.timestamps[ret.pos + 1],
                                              arg.scores[ret.pos + 1], arg.high, arg.low)]
    /\ UNCHANGED <<rtVars, arg, engVars>>

\* Leaving the loop and returning the spans.
SpansReturn ==
    /\ ret.op = "extract_spans"
    /\ ~ret.done
    /\ ret.pos = Len(arg.scores)
    /\ ret' = [ret EXCEPT !.done = TRUE, !.spans = SpanLoopEnd(ret.st, arg.timestamps)]
    /\ UNCHANGED <<rtVars, arg, engVars>>

NextSpans == SpansBegin \/ SpansSample \/ SpansReturn

SpecSpans == InitSpans /\ [][NextSpans]_vars

\* C7: a sample equal to hysteresis_high opens a span when none is open; a
\* sample equal to hysteresis_low keeps an open span open; an open span is
\* closed only by a sample strictly below hysteresis_low, or by the end of
\* the sequence.
C7_HysteresisBoundary ==
    [][(ret.op = "extract_spans" /\ ~ret.done) =>
        IF ret'.done
        THEN \* end of the sequence: a span is emitted exactly if one is open
             /\ Len(ret'.spans) = Len(ret.st.spans) + (IF ret.st.in_span THEN 1 ELSE 0)
        ELSE LET score == arg.scores[ret'.pos]
             IN /\ (~ret.st.in_span /\ score = arg.high) => ret'.st.in_span
                /\ (ret.st.in_span /\ score = arg.low) =>
                      (ret'.st.in_span /\ ret'.st.spans = ret.st.spans)
                /\ (ret.st.in_span /\ (~ret'.st.in_span \/ ret'.st.spans # ret.st.spans))
                      => score < arg.low]_vars

\* A span was opened by a sample equal to high, stayed open over a sample
\* equal to low, and was then closed by a sample below low.
C7_Witness ==
    /\ ret.op = "extract_spans"
    /\ ret.done
    /\ Len(arg.scores) >= 3
    /\ arg.scores[1] = arg.high
    /\ arg.scores[2] = arg.low
    /\ arg.scores[3] < arg.low
    /\ Len(ret.spans) >= 1
    /\ ret.spans[1].score_count = 2

(***************************************************************************)
(* Specification: the engine, one run() call per step                      *)
(***************************************************************************)
InitEngine ==
    /\ IdleRuntime
    /\ IdleFn
    /\ config \in ConfigChoices
    /\ hash_salt \in HashSalts
    /\ stores = EmptyStores
    /\ runs = <<>>
    /\ threads = <<>>

\* engine.run(request): the stores are updated and the call is recorded.
Run(request) ==
    /\ Len(runs) < MaxRuns
    /\ \E r \in {run(stores, config, request)} :
          /\ stores' = r.stores
          /\ runs' = Append(runs, [request |-> request, outcome |-> r.outcome,
                                   result |-> r.result,
                                   fallback_taken |-> r.fallback_taken,
                                   scored |-> r.scored,
                                   admitted |-> r.admitted,
                                   selected |-> r.selected,
                                   built_edges |-> r.built_edges])
    /\ UNCHANGED <<rtVars, fnVars, config, hash_salt, threads>>

NextEngine == \E request \in RequestCatalog : Run(request)

SpecEngine == InitEngine /\ [][NextEngine]_vars

\* Run i completed and returned a PipelineResult.
Returned(i) == i \in 1..Len(runs) /\ runs[i].outcome = "ok"

\* Runs i and i + 1 were given the same QueryRequest and both returned.
SameRequestTwice(i) ==
    /\ Returned(i)
    /\ Returned(i + 1)
    /\ runs[i].request = runs[i + 1].request

\* The stage outputs of a PipelineResult: everything but the metrics.
StageOutputs(result) ==
    [f \in {"active_windows", "validated_windows", "tracklets", "entity_links",
            "temporal_segments", "graph_nodes", "graph_edges", "synthesis"} |-> result[f]]

\* C2 as stated: the same request run twice in succession on an engine that
\* was fresh before the first run gives two results with identical stage
\* outputs (only the cache counters may differ).
C2_Determinism ==
    SameRequestTwice(1) => StageOutputs(runs[1].result) = StageOutputs(runs[2].result)

CacheHits(i) == runs[i].result.metrics.cache_hits

\* C3 as stated: for any request, the second of two successive runs reports
\* strictly more cumulative cache hits than the first.
C3_Original ==
    \A i \in 1..Len(runs) : SameRequestTwice(i) => CacheHits(i + 1) > CacheHits(i)

\* C3 amended: the second of two successive runs of one request never
\* reports fewer cumulative cache hits than the first, and reports strictly
\* more exactly when it validates at least one window; a request with zero
\* clips leaves the count as it was.
C3_CacheHits ==
    \A i \in 1..Len(runs) :
        SameRequestTwice(i) =>
            /\ CacheHits(i + 1) >= CacheHits(i)
            /\ CacheHits(i + 1) > CacheHits(i)
                 <=> runs[i + 1].result.validated_windows # <<>>
            /\ runs[i].request.clips = <<>> => CacheHits(i + 1) = CacheHits(i)

\* A request was run twice; the first run already had hits (its sub-queries
\* found the features cached) and the second run added to them without a miss.
C3_Witness ==
    /\ SameRequestTwice(1)
    /\ CacheHits(1) > 0
    /\ CacheHits(2) > CacheHits(1)
    /\ runs[2].result.metrics.cache_misses = runs[1].result.metrics.cache_misses

\* C4 as stated: unless the clip-diversity fallback branch of stage 2 ran,
\* every ValidatedWindow stage 2 returns has confidence at or above
\* stage2_min_validation_confidence.
C4_ValidationThreshold ==
    \A i \in 1..Len(runs) :
        (Returned(i) /\ ~runs[i].fallback_taken) =>
            \A k \in 1..Len(runs[i].result.validated_windows) :
                runs[i].result.validated_windows[k].confidence
                    >= config.stage2_min_validation_confidence

\* C5: after any sequence of run() calls, every GraphEdge of every result,
\* every edge held in the graph store and every ClaimRecord of every
\* synthesis has a non-empty evidence list.
C5_EvidenceComplete ==
    /\ \A i \in 1..Len(runs) :
          Returned(i) =>
              /\ \A k \in 1..Len(runs[i].result.graph_edges) :
                    runs[i].result.graph_edges[k].evidence_refs # <<>>
              /\ \A k \in 1..Len(runs[i].result.synthesis.claims) :
                    runs[i].result.synthesis.claims[k].evidence_refs # <<>>
    /\ \A k \in 1..Len(stores.graph_store.edges) :
          stores.graph_store.edges[k].value.evidence_refs # <<>>

\* Two runs that both emitted an EXITS and a MOVES_TO edge, with claims
\* built from them and the edges held in the store.
C5_Witness ==
    /\ Len(runs) = 2
    /\ \A i \in 1..2 :
          /\ Returned(i)
          /\ \E k \in 1..Len(runs[i].result.graph_edges) :
                runs[i].result.graph_edges[k].edge_type = "EXITS"
          /\ \E k \in 1..Len(runs[i].result.graph_edges) :
                runs[i].result.graph_edges[k].edge_type = "MOVES_TO"
          /\ Len(runs[i].result.synthesis.claims) = Len(runs[i].result.graph_edges)
    /\ Len(stores.graph_store.edges) >= 2

\* C8: a request with zero clips, run on an engine in any state, yields zero
\* active windows, zero synthesis claims and the conservative
\* insufficient-evidence summary.
C8_EmptyInput ==
    \A i \in 1..Len(runs) :
        (Returned(i) /\ runs[i].request.clips = <<>>) =>
            /\ runs[i].result.active_windows = <<>>
            /\ runs[i].result.synthesis.claims = <<>>
            /\ runs[i].result.synthesis.summary = CONSERVATIVE_SUMMARY

\* A zero-clip request run on an engine whose stores an earlier run had
\* filled with keyframes, cached features, edges and evidence.
C8_Witness ==
    /\ Len(runs) = 2
    /\ Returned(2)
    /\ runs[2].request.clips = <<>>
    /\ runs[1].result.graph_edges # <<>>
    /\ stores.graph_store.edges # <<>>
    /\ stores.frame_index # <<>>
    /\ runs[2].result.synthesis.summary = CONSERVATIVE_SUMMARY

(***************************************************************************)
(* Specification: validate_state_snapshot applied to one snapshot          *)
(***************************************************************************)
\* A key a snapshot may hold although no contract requires it.
StrayStateKey == "debug_trace"

\* OrchestratorContract.required_state_keys: any frozenset of strings.
ContractKeySets ==
    { {},
      {"query_id", "entity_links"},
      REQUIRED_ORCHESTRATION_STATE_KEYS,
      REQUIRED_ORCHESTRATION_STATE_KEYS \cup {ExtraStateKey} }

SnapshotKeys == REQUIRED_ORCHESTRATION_STATE_KEYS \cup {ExtraStateKey, StrayStateKey}

\* What a snapshot holds under its keys.
SnapshotValues == {"None", "set"}

\* The snapshots: every set of keys, all mapped to one of the values.
Snapshots ==
    UNION { { [k \in keys |-> v] : v \in SnapshotValues } : keys \in SUBSET SnapshotKeys }

InitSnapshot ==
    /\ IdleRuntime
    /\ IdleEngine
    /\ \E required \in ContractKeySets, snapshot \in Snapshots :
          arg = [required_state_keys |-> required, snapshot |-> snapshot]
    /\ ret = NoRet

\* contract.validate_state_snapshot(snapshot): returns, or raises ValueError.
ValidateSnapshot ==
    /\ ret = NoRet
    /\ ret' = [op |-> "validate_state_snapshot",
               result |-> IF validate_state_snapshot(arg.required_state_keys,
                                                     DOMAIN arg.snapshot)
                          THEN "ok" ELSE "ValueError"]
    /\ UNCHANGED <<rtVars, arg, engVars>>

NextSnapshot == ValidateSnapshot

SpecSnapshot == InitSnapshot /\ [][NextSnapshot]_vars

\* C11: validate_state_snapshot raises exactly when a key of the contract's
\* required-state-key set is absent from the snapshot, whatever the snapshot
\* holds under its keys, and returns when every required key is present.
C11_MissingKeyRaises ==
    ret.op = "validate_state_snapshot" =>
        /\ ret.result = "ValueError"
             <=> \E k \in arg.required_state_keys : k \notin DOMAIN arg.snapshot
        /\ ret.result = "ok" <=> arg.required_state_keys \subseteq DOMAIN arg.snapshot

\* A snapshot holding None under every required key but query_id was refused.
C11_Witness ==
    /\ ret.op = "validate_state_snapshot"
    /\ ret.result = "ValueError"
    /\ arg.required_state_keys = REQUIRED_ORCHESTRATION_STATE_KEYS
    /\ DOMAIN arg.snapshot = REQUIRED_ORCHESTRATION_STATE_KEYS \ {"query_id"}
    /\ \A k \in DOMAIN arg.snapshot : arg.snapshot[k] = "None"

(***************************************************************************)
(* Specification: one runtime driven stage by stage                        *)
(***************************************************************************)
\* OrchestrationRuntime.canonical_flow
canonical_flow ==
    <<"stage_1", "stage_2", "stage_3", "stage_4", "stage_5", "stage_6", "stage_7">>

MaxFlowEvents == 6

\* The stage the caller is at: stage_1 at the start, then whatever the last
\* successful call returned (a failed call leaves the caller where it was).
FlowStage ==
    IF rt_call.op = "none" THEN canonical_flow[1]
    ELSE IF rt_result = "ValueError" THEN rt_call.current_stage
    ELSE rt_result

InitFlow ==
    /\ branching_hooks \in HookConfigs
    /\ events = <<>>
    /\ rt_call = NoCall
    /\ rt_result = "none"
    /\ IdleFn
    /\ IdleEngine

\* runtime.transition(current, next_stage, reason) from the caller's stage.
FlowTransition(next_stage, reason) ==
    /\ Len(events) < MaxFlowEvents
    /\ \E r \in {transition(events, FlowStage, next_stage, reason)} :
          /\ events' = r.events
          /\ rt_result' = r.result
    /\ rt_call' = [op |-> "transition", current_stage |-> FlowStage,
                   arg |-> next_stage, reason |-> reason]
    /\ UNCHANGED <<branching_hooks, fnVars, engVars>>

\* runtime.apply_branching_hook(current, hook) from the caller's stage.
FlowHook(hook) ==
    /\ Len(events) < MaxFlowEvents
    /\ \E r \in {apply_branching_hook(events, branching_hooks, FlowStage, hook)} :
          /\ events' = r.events
          /\ rt_result' = r.result
    /\ rt_call' = [op |-> "apply_branching_hook", current_stage |-> FlowStage,
                   arg |-> hook, reason |-> "hook:" \o hook]
    /\ UNCHANGED <<branching_hooks, fnVars, engVars>>

NextFlow ==
    \/ \E n \in Stages, r \in Reasons : FlowTransition(n, r)
    \/ \E h \in HookNames : FlowHook(h)

SpecFlow == InitFlow /\ [][NextFlow]_vars

\* C12: the transition log is append-only and ordered. A successful
\* transition() or apply_branching_hook() appends exactly one event
\* (from, to, reason) at the end, with reason "hook:<name>" for a hook; a
\* failed call appends nothing; no call removes, reorders or changes an
\* earlier event.
C12_AppendOnlyLog ==
    [][/\ SubSeq(events', 1, Len(events)) = events
       /\ rt_result' = "ValueError" => events' = events
       /\ rt_result' # "ValueError" =>
             events' = Append(events, TransitionEvent(rt_call'.current_stage, rt_result',
                                                      rt_call'.reason))
       /\ (rt_call'.op = "apply_branching_hook" /\ rt_result' # "ValueError") =>
             events'[Len(events')].reason = "hook:" \o rt_call'.arg]_vars

\* The six consecutive pairs of the canonical flow applied to a fresh
\* runtime: six events, in flow order.
C12_Witness ==
    events = [i \in 1..6 |->
                 TransitionEvent(canonical_flow[i], canonical_flow[i + 1], "forward")]

\* The position of a stage in the canonical order.
StageIndex(stage) == CHOOSE i \in 1..Len(canonical_flow) : canonical_flow[i] = stage

\* The targets the graph is stated to give a stage: itself when it is one of
\* `retrying`, and its immediate successor.
StatedTargets(stage, retrying) ==
    {n \in Stages : \/ n = stage /\ stage \in retrying
                    \/ StageIndex(n) = StageIndex(stage) + 1}

\* The graph has exactly the stated targets, and transition() accepts a pair
\* exactly when it is one of them.
GraphIs(retrying) ==
    /\ \A c \in Stages : \A n \in Stages :
          can_transition(c, n) <=> n \in StatedTargets(c, retrying)
    /\ rt_call.op = "transition" =>
          (rt_result # "ValueError"
             <=> rt_call.arg \in StatedTargets(rt_call.current_stage, retrying))

\* C13 as stated: every stage other than stage_1 may transition to itself,
\* stage_1 may not, and a stage's only other target is its immediate
\* successor.
C13_Original == GraphIs(Stages \ {"stage_1"})

\* C13 amended: stages 2 to 6 may transition to themselves, stage_1 and the
\* terminal stage_7 may not (stage_7 has no target at all), and a stage's
\* only other target is its immediate successor.
C13_TransitionGraph == GraphIs(Stages \ {"stage_1", "stage_7"})

\* After a logged retry self-loop, a stage_7 -> stage_7 call was refused.
C13_Witness ==
    /\ rt_call = [op |-> "transition", current_stage |-> "stage_7", arg |-> "stage_7"]
    /\ rt_result = "ValueError"
    /\ \E i \in 1..Len(events) : events[i].from_stage = events[i].to_stage

(***************************************************************************)
(* Specification: the L1 lookups of two run() calls on one engine,         *)
(* interleaved (stores.py, pipeline.py)                                    *)
(*                                                                         *)
(* Neither the stores nor the engine hold a lock, so the statements of     *)
(* two callers interleave freely. Each caller goes through the cache part  *)
(* of the loop of _score_windows once per key; `self.hits += 1` and        *)
(* `self.misses += 1` are a read followed by a write.                      *)
(***************************************************************************)
ThreadIds == {1, 2}

MaxLookups == 2

\* The cache keys of the windows the two requests share.
CacheKeys == {"l1:win_a", "l1:win_b"}

\* The key lists a caller may go through, one get_l1 per entry.
LookupLists == UNION { [1..n -> CacheKeys] : n \in 1..MaxLookups }

\* The position a caller returns to after a key: the next key, or the end.
AfterKey(keys) == IF Tail(keys) = <<>> THEN "done" ELSE "lookup"

InitConcurrent ==
    /\ IdleRuntime
    /\ IdleFn
    /\ config = DefaultConfig
    /\ hash_salt = 1
    /\ stores = EmptyStores
    /\ runs = <<>>
    /\ threads \in [ThreadIds -> { [pc |-> "lookup", keys |-> keys, found |-> FALSE,
                                    seen |-> 0, lookups |-> 0] : keys \in LookupLists }]

\* get_l1: `item = self.l1.get(key)`
LookupItem(t) ==
    /\ threads[t].pc = "lookup"
    /\ threads' = [threads EXCEPT
                      ![t].found = DictHas(stores.feature_cache.l1, threads[t].keys[1]),
                      ![t].pc = "read"]
    /\ UNCHANGED <<rtVars, fnVars, config, hash_salt, stores, runs>>

\* get_l1: the read of `self.hits += 1` or `self.misses += 1`
ReadCounter(t) ==
    /\ threads[t].pc = "read"
    /\ threads' = [threads EXCEPT
                      ![t].seen = IF threads[t].found THEN stores.feature_cache.hits
                                  ELSE stores.feature_cache.misses,
                      ![t].pc = "write"]
    /\ UNCHANGED <<rtVars, fnVars, config, hash_salt, stores, runs>>

\* get_l1: the write of `self.hits += 1` or `self.misses += 1`, and the return
WriteCounter(t) ==
    /\ threads[t].pc = "write"
    /\ stores' = IF threads[t].found
                 THEN [stores EXCEPT !.feature_cache.hits = threads[t].seen + 1]
                 ELSE [stores EXCEPT !.feature_cache.misses = threads[t].seen + 1]
    /\ threads' = [threads EXCEPT
                      ![t].lookups = @ + 1,
                      ![t].pc = IF threads[t].found THEN AfterKey(threads[t].keys)
                                ELSE "store",
                      ![t].keys = IF threads[t].found THEN Tail(@) ELSE @]
    /\ UNCHANGED <<rtVars, fnVars, config, hash_salt, runs>>

\* _score_windows after a miss: the features are extracted and set_l1 called
StoreFeatures(t) ==
    /\ threads[t].pc = "store"
    /\ stores' = [stores EXCEPT
                     !.feature_cache = set_l1(@, threads[t].keys[1],
                                              "features:" \o threads[t].keys[1])]
    /\ threads' = [threads EXCEPT ![t].pc = AfterKey(threads[t].keys),
                                  ![t].keys = Tail(@)]
    /\ UNCHANGED <<rtVars, fnVars, config, hash_salt, runs>>

NextConcurrent ==
    \E t \in ThreadIds :
        \/ LookupItem(t)
        \/ ReadCounter(t)
        \/ WriteCounter(t)
        \/ StoreFeatures(t)

SpecConcurrent == InitConcurrent /\ [][NextConcurrent]_vars

\* C14 as stated: the store mutations of two concurrent run() calls are
\* mutually exclusive, so no update is lost: once both callers are through,
\* hits + misses is the number of L1 lookups the two performed.
C14_NoLostUpdate ==
    (\A t \in ThreadIds : threads[t].pc = "done") =>
        stores.feature_cache.hits + stores.feature_cache.misses
            = threads[1].lookups + threads[2].lookups

(***************************************************************************)
(* Graph memory: the edges of a result against the edges of the store      *)
(***************************************************************************)
\* GraphStore.edges_with_evidence: the stored edges whose evidence_refs list
\* is not empty, in insertion order.
edges_with_evidence(st) ==
    DictValues(SelectSeq(st.graph_store.edges,
                         LAMBDA entry : entry.value.evidence_refs # <<>>))

\* The edge ids of a list of edges.
EdgeIds(edges) == {edges[i].edge_id : i \in 1..Len(edges)}

\* The edge ids of the results of all runs that returned so far.
EmittedEdgeIds ==
    UNION {EdgeIds(runs[i].result.graph_edges) : i \in {j \in 1..Len(runs) : Returned(j)}}

C16_HookRedirectsBack ==
    [][(/\ rt_call'.op = "apply_branching_hook"
        /\ rt_call'.arg \in branching_hooks \cap MappedHooks
        /\ StageIndex(rt_call'.current_stage) > StageIndex(HOOK_TO_STAGE[rt_call'.arg]))
       => (/\ rt_result' = HOOK_TO_STAGE[rt_call'.arg]
           /\ events' = Append(events,
                               TransitionEvent(rt_call'.current_stage,
                                               HOOK_TO_STAGE[rt_call'.arg],
                                               "hook:" \o rt_call'.arg)))]_vars

(***************************************************************************)
(* The end-of-run state snapshot against the configured contract           *)
(***************************************************************************)
\* C17: for every configuration the schema accepts and every request, the
\* state snapshot run() has built when stage 7 finishes holds every key the
\* contract requires, and the end-of-run validation never raises.
C17_SnapshotComplete ==
    \A i \in 1..Len(runs) :
        /\ config.required_state_keys \subseteq StateKeys
        /\ runs[i].outcome = "ok"

(***************************************************************************)
(* Stage 2: the windows handed to the final selection                      *)
(***************************************************************************)
\* [window_id, confidence] of the items of a list of ValidatedWindow.
Instances(items) ==
    {[window_id |-> items[k].window_id, confidence |-> items[k].confidence] :
        k \in 1..Len(items)}

\* The items of `scored` no item of the same clip scores above.
BestOfClip(scored) ==
    Instances(SelectSeq(scored,
                        LAMBDA item :
                            \A k \in 1..Len(scored) :
                                scored[k].clip_id = item.clip_id
                                    => scored[k].confidence <= item.confidence))

\* No window scored under the full query reaches the minimum confidence,
\* and at least one was scored.
NoneValidates(i) ==
    /\ runs[i].scored # <<>>
    /\ \A k \in 1..Len(runs[i].scored) :
          runs[i].scored[k].confidence < config.stage2_min_validation_confidence

\* C18: whenever no scored candidate window reaches the minimum confidence
\* under the full query and at least one candidate was scored, the windows
\* handed to the final selection are the best-scoring full-query window of
\* each clip that has a candidate.
C18_FallbackPerClip ==
    \A i \in 1..Len(runs) :
        NoneValidates(i) =>
            /\ Instances(runs[i].admitted) \subseteq BestOfClip(runs[i].scored)
            /\ \A k \in 1..Len(runs[i].scored) :
                  \E a \in 1..Len(runs[i].admitted) :
                      runs[i].admitted[a].clip_id = runs[i].scored[k].clip_id
            /\ \A a, b \in 1..Len(runs[i].admitted) :
                  runs[i].admitted[a].clip_id = runs[i].admitted[b].clip_id => a = b

(***************************************************************************)
(* Specification: the final selection of stage 2 applied to one list       *)
(***************************************************************************)
MaxAdmitted == 4

MaxTopK == 3

\* The windows the admitted list is drawn over: two in one clip, one in each
\* of two more.
SelectWindows ==
    { [window_id |-> "win_a1", clip_id |-> "clip_a"],
      [window_id |-> "win_a2", clip_id |-> "clip_a"],
      [window_id |-> "win_b1", clip_id |-> "clip_b"],
      [window_id |-> "win_c1", clip_id |-> "clip_c"] }

SelectConfidences == {400, 600}

\* ValidatedWindow, reduced to the fields the selection reads.
SelectItems ==
    { [window_id |-> w.window_id, clip_id |-> w.clip_id, confidence |-> c] :
        w \in SelectWindows, c \in SelectConfidences }

\* The `validated` lists: instances of one window may repeat with different
\* confidence, one per query variant.
AdmittedLists == UNION { [1..n -> SelectItems] : n \in 0..MaxAdmitted }

InitSelect ==
    /\ IdleRuntime
    /\ IdleEngine
    /\ \E validated \in AdmittedLists, top_k \in 1..MaxTopK :
          arg = [validated |-> validated, top_k |-> top_k]
    /\ ret = NoRet

Stage2Select ==
    /\ ret = NoRet
    /\ ret' = [op |-> "stage_2_select",
               selected |-> SelectValidated(arg.validated, arg.top_k)]
    /\ UNCHANGED <<rtVars, arg, engVars>>

NextSelect == Stage2Select

SpecSelect == InitSelect /\ [][NextSelect]_vars

\* The clips of a list of windows.
ClipsOf(items) == {items[k].clip_id : k \in 1..Len(items)}

\* The first n entries of `selected` are one per clip and the best admitted
\* of their clip; a clip repeats only once every clip is there; the entries
\* after the first n are in non-increasing confidence order.
DiversityFirst(validated, selected, n) ==
    /\ Len(selected) >= n
    /\ \A a, b \in 1..n : a # b => selected[a].clip_id # selected[b].clip_id
    /\ \A a \in 1..n :
          /\ \E k \in 1..Len(validated) :
                /\ validated[k].window_id = selected[a].window_id
                /\ validated[k].confidence = selected[a].confidence
          /\ \A k \in 1..Len(validated) :
                validated[k].clip_id = selected[a].clip_id
                    => validated[k].confidence <= selected[a].confidence
    /\ \A a \in 1..Len(selected) :
          (\E b \in 1..(a - 1) : selected[b].clip_id = selected[a].clip_id)
              => ClipsOf(SubSeq(selected, 1, a - 1)) = ClipsOf(validated)
    /\ \A a, b \in (n + 1)..Len(selected) :
          a < b => selected[a].confidence >= selected[b].confidence

\* C19: in the list stage 2 returns, the first min(top-K, number of distinct
\* clips among the admitted windows) entries come from pairwise distinct
\* clips and are each the highest-confidence admitted window of their clip; a
\* second window of a clip appears only after every clip with an admitted
\* window is represented, and the fill entries are in non-increasing
\* confidence order.
C19_DiversityPass ==
    ret.op = "stage_2_select" =>
        DiversityFirst(arg.validated, ret.selected,
                       Min2(arg.top_k, Cardinality(ClipsOf(arg.validated))))

\* Two clips are represented before the second window of the first clip,
\* although that window outranks the other clip's.
C19_Witness ==
    /\ ret.op = "stage_2_select"
    /\ arg.top_k = 3
    /\ Len(ret.selected) = 3
    /\ ret.selected[1].clip_id = ret.selected[3].clip_id
    /\ ret.selected[2].clip_id # ret.selected[1].clip_id
    /\ ret.selected[3].confidence > ret.selected[2].confidence
    /\ Cardinality(ClipsOf(arg.validated)) = 2

(***************************************************************************)
(* Stage 2: the returned list against the admitted instances               *)
(***************************************************************************)
\* The entries of `selected` are among windows `window_ids`.
WithinWindows(selected, window_ids) ==
    \A k \in 1..Len(selected) : selected[k].window_id \in window_ids

\* Every entry of `selected` carries the highest confidence among the
\* admitted instances of its window id, and is one of them.
CarriesMaximum(selected, admitted) ==
    \A k \in 1..Len(selected) :
        /\ \E a \in 1..Len(admitted) :
              /\ admitted[a].window_id = selected[k].window_id
              /\ admitted[a].confidence = selected[k].confidence
        /\ \A a \in 1..Len(admitted) :
              admitted[a].window_id = selected[k].window_id
                  => admitted[a].confidence <= selected[k].confidence

\* C20: the list stage 2 returns never has more than
\* stage2_validated_top_k_windows entries, never holds two entries with the
\* same window id, holds only windows among the run's active windows, and
\* each entry carries the maximum confidence among all admitted instances
\* (full query and sub-queries) of its window id.
C20_SelectedWindows ==
    \A i \in 1..Len(runs) :
        /\ Len(runs[i].selected) <= config.stage2_validated_top_k_windows
        /\ \A a, b \in 1..Len(runs[i].selected) :
              runs[i].selected[a].window_id = runs[i].selected[b].window_id => a = b
        /\ CarriesMaximum(runs[i].selected, runs[i].admitted)
        /\ Returned(i) =>
              /\ runs[i].result.validated_windows = runs[i].selected
              /\ WithinWindows(runs[i].selected,
                               {runs[i].result.active_windows[k].window_id :
                                   k \in 1..Len(runs[i].result.active_windows)})

\* A second run admitted two instances of one window with different
\* confidence and more windows than it may return.
C20_Witness ==
    /\ Len(runs) = 2
    /\ Returned(2)
    /\ runs[2].selected # <<>>
    /\ \E a, b \in 1..Len(runs[2].admitted) :
          /\ runs[2].admitted[a].window_id = runs[2].admitted[b].window_id
          /\ runs[2].admitted[a].confidence < runs[2].admitted[b].confidence
    /\ \E a \in 1..Len(runs[2].admitted) :
          \A k \in 1..Len(runs[2].selected) :
              runs[2].selected[k].window_id # runs[2].admitted[a].window_id

\* The same bounds on the selection applied to every admitted list.
SelectKeepsMaximum ==
    ret.op = "stage_2_select" =>
        /\ Len(ret.selected) <= arg.top_k
        /\ \A a, b \in 1..Len(ret.selected) :
              ret.selected[a].window_id = ret.selected[b].window_id => a = b
        /\ CarriesMaximum(ret.selected, arg.validated)

(***************************************************************************)
(* Specification: stage 3 on one validated window, one attempt per step    *)
(***************************************************************************)
MaxRetries == 3

\* An exterior clip with three labels the detector/tracker fallback accepts.
CrowdedClip ==
    Clip("clip_ext", "camA", "static", "exterior",
         << FrameObservation(0, <<"red_suv", "person_p2">>, <<>>, 300),
            FrameObservation(1, <<"red_suv", "person_p1", "person_p2">>,
                             <<"person_exits_suv">>, 300),
            FrameObservation(2, <<"person_p1">>, <<>>, 300) >>,
         FALSE, <<>>)

GroundClips ==
    {ExteriorClip, InteriorClip, ExteriorClipAlt, QuietClip, MetaClip, CrowdedClip}

GroundQueries ==
    {"find the suv and track the person", "find the suv", "track the person",
     "show activity"}

\* sam3_min_mask_confidence, in thousandths.
MaskThresholds == {0, 600, 860, 875, 900, 1000}

\* [window, clip] for every active window of the clips.
GroundTargets ==
    UNION { {[window |-> ValidatedWindow(ClipWindows(clip)[i], 500, "q"), clip |-> clip] :
                i \in 1..Len(ClipWindows(clip))} : clip \in GroundClips }

\* The query variant of attempt number `attempt` (from 0).
VariantOf(variants, attempt) == variants[Min2(attempt, Len(variants) - 1) + 1]

\* One window with what the adapters return on it: grounded[k] is the result
\* of sam3.ground_window at attempt k - 1, fallback that of
\* _detector_tracker_fallback.
GroundInput(target, query_text, threshold, max_retries) ==
    [window |-> target.window, clip |-> target.clip, query_text |-> query_text,
     threshold |-> threshold, max_retries |-> max_retries,
     grounded |-> [k \in 1..(max_retries + 1) |->
                      ground_window(target.window, target.clip,
                                    VariantOf(decompose(query_text), k - 1))],
     fallback |-> _detector_tracker_fallback(target.window, target.clip)]

InitGround ==
    /\ IdleRuntime
    /\ IdleEngine
    /\ \E target \in GroundTargets, query_text \in GroundQueries,
          threshold \in MaskThresholds, max_retries \in 0..MaxRetries :
          arg = GroundInput(target, query_text, threshold, max_retries)
    /\ ret = NoRet

\* The head of the loop body for one window: best_tracklets = [],
\* best_score = -1.0.
GroundBegin ==
    /\ ret = NoRet
    /\ ret' = [op |-> "stage_3", phase |-> "attempts", calls |-> <<>>,
               tried |-> [artifacts |-> <<>>, best_tracklets |-> <<>>,
                          best_score |-> [sum |-> -1000, n |-> 1]],
               fallback_called |-> FALSE, fallback_tracklets |-> <<>>, output |-> <<>>]
    /\ UNCHANGED <<rtVars, arg, engVars>>

\* The state after an attempt that returned candidate_tracklets.
AfterAttempt(state, candidate_tracklets, threshold, max_retries) ==
    [state EXCEPT
        !.calls = Append(@, candidate_tracklets),
        !.tried = AttemptStep(@, candidate_tracklets,
                              MeanOf([i \in 1..Len(candidate_tracklets) |->
                                        candidate_tracklets[i].mask_confidence])),
        !.phase = IF AttemptSucceeds(candidate_tracklets, threshold)
                     \/ Len(state.calls) >= max_retries
                  THEN "after_loop" ELSE "attempts"]

\* One iteration of `for attempt in range(max_retries + 1)`.
GroundAttempt ==
    /\ ret.op = "stage_3"
    /\ ret.phase = "attempts"
    /\ Len(ret.calls) <= arg.max_retries
    /\ ret' = AfterAttempt(ret, arg.grounded[Len(ret.calls) + 1], arg.threshold,
                           arg.max_retries)
    /\ UNCHANGED <<rtVars, arg, engVars>>

\* After the loop: the fallback when best_score < threshold, then the
\* tracklets the window contributes.
GroundFinish ==
    /\ ret.op = "stage_3"
    /\ ret.phase = "after_loop"
    /\ ret' = [ret EXCEPT
                  !.phase = "done",
                  !.fallback_called =
                      ret.tried.best_score.sum < arg.threshold * ret.tried.best_score.n,
                  !.fallback_tracklets =
                      IF ret.tried.best_score.sum < arg.threshold * ret.tried.best_score.n
                      THEN arg.fallback ELSE <<>>,
                  !.output =
                      IF ret.tried.best_score.sum < arg.threshold * ret.tried.best_score.n
                         /\ arg.fallback # <<>>
                      THEN arg.fallback ELSE ret.tried.best_tracklets]
    /\ UNCHANGED <<rtVars, arg, engVars>>

NextGround == GroundBegin \/ GroundAttempt \/ GroundFinish

SpecGround == InitGround /\ [][NextGround]_vars

\* The loop is scheduled until it is left.
FairGround == SpecGround /\ WF_vars(NextGround)

\* The sum of the mask confidences of an attempt's tracklets.
MaskSum(tracklets) == SumSeq([i \in 1..Len(tracklets) |-> tracklets[i].mask_confidence])

\* The attempt returned tracklets whose mean mask confidence is at least the
\* threshold.
MeanMeets(tracklets, threshold) ==
    tracklets # <<>> /\ MaskSum(tracklets) >= threshold * Len(tracklets)

\* mean(a) < mean(b) for two non-empty attempts.
MeanBelow(a, b) == MaskSum(a) * Len(b) < MaskSum(b) * Len(a)

\* Attempt k is the earliest attempt of highest mean among those that
\* returned tracklets.
EarliestBest(calls, k) ==
    /\ calls[k] # <<>>
    /\ \A j \in 1..Len(calls) : calls[j] # <<>> => ~MeanBelow(calls[k], calls[j])
    /\ \A j \in 1..(k - 1) : calls[j] # <<>> => MeanBelow(calls[j], calls[k])

\* The bounds on the attempts made so far and the attempt kept.
RetryBounds(state, threshold, max_retries) ==
    /\ Len(state.calls) <= max_retries + 1
    /\ state.phase # "attempts" => Len(state.calls) >= 1
    /\ \A k \in 1..(Len(state.calls) - 1) : ~MeanMeets(state.calls[k], threshold)
    /\ \A k \in 1..Len(state.calls) :
          EarliestBest(state.calls, k) => state.tried.best_tracklets = state.calls[k]
    /\ (\A k \in 1..Len(state.calls) : state.calls[k] = <<>>)
          => state.tried.best_tracklets = <<>>

\* C21: for a validated window the grounder is called at least once and at
\* most sam3_retry_max_attempts + 1 times, no attempt follows the first one
\* whose mean mask confidence meets the minimum, the result kept is that of
\* the attempt of highest mean (the earliest on ties), and the loop
\* terminates.
C21_RetryLoop ==
    /\ [](ret.op = "stage_3" => RetryBounds(ret, arg.threshold, arg.max_retries))
    /\ <>(ret.op = "stage_3" /\ ret.phase = "done")

\* Three attempts were made, none met the minimum, and the one kept is the
\* second.
C21_Witness ==
    /\ ret.op = "stage_3"
    /\ ret.phase = "done"
    /\ Len(ret.calls) = 3
    /\ arg.max_retries = 2
    /\ EarliestBest(ret.calls, 2)
    /\ ret.calls[1] # <<>>
    /\ ret.calls[3] # <<>>

\* Some attempt returned tracklets whose mean mask confidence meets the
\* threshold.
BestMeets(calls, threshold) == \E k \in 1..Len(calls) : MeanMeets(calls[k], threshold)

\* The window's output once the loop is left.
FallbackRule(state, threshold) ==
    /\ state.fallback_called <=> ~BestMeets(state.calls, threshold)
    /\ Len(state.fallback_tracklets) <= 2
    /\ \A i \in 1..Len(state.fallback_tracklets) :
          state.fallback_tracklets[i].mask_confidence = 510
    /\ state.output = IF state.fallback_tracklets # <<>> THEN state.fallback_tracklets
                      ELSE state.tried.best_tracklets

\* C22: the detector/tracker fallback is invoked for a window exactly when
\* the best attempt's mean mask confidence is below the minimum (including
\* when every attempt returned no tracklets); it emits at most two tracklets,
\* each with mask confidence 0.51; the window's output is the fallback
\* tracklets if that list is non-empty and the best attempt's otherwise. The
\* output is what the engine's loop body appends for the window.
C22_FallbackRule ==
    (ret.op = "stage_3" /\ ret.phase = "done") =>
        /\ FallbackRule(ret, arg.threshold)
        /\ ret.output = GroundWindow([stores |-> EmptyStores, tracklets |-> <<>>],
                                     ret.tried, arg.window, arg.clip,
                                     arg.threshold).tracklets

\* The best attempt returned tracklets below the minimum and the fallback's
\* two tracklets replaced them.
C22_Witness ==
    /\ ret.op = "stage_3"
    /\ ret.phase = "done"
    /\ ret.fallback_called
    /\ ret.tried.best_tracklets # <<>>
    /\ Len(ret.fallback_tracklets) = 2
    /\ ret.output = ret.fallback_tracklets

\* The fallback found three labels and emitted tracklets for the first two.
FallbackCapped ==
    /\ ret.op = "stage_3"
    /\ ret.phase = "done"
    /\ Len(ret.fallback_tracklets) = 2
    /\ Cardinality(ObjectsOf(FramesIn(arg.clip.frames, arg.window.t_start, arg.window.t_end))
                     \cap FallbackLabels) = 3

\* Every attempt came back empty, so did the fallback, and the window
\* contributes nothing.
NothingGrounded ==
    /\ ret.op = "stage_3"
    /\ ret.phase = "done"
    /\ ret.fallback_called
    /\ \A k \in 1..Len(ret.calls) : ret.calls[k] = <<>>
    /\ ret.output = <<>>

(***************************************************************************)
(* Specification: the ambiguity pass of stage 5 applied to one list        *)
(***************************************************************************)
MaxSegments == 3

SegmentClips ==
    { [clip_id |-> "clip_ext", camera_id |-> "camA"],
      [clip_id |-> "clip_int", camera_id |-> "camB"] }

SegmentSpans ==
    { [t_start |-> 0, t_end |-> 0], [t_start |-> 0, t_end |-> 1],
      [t_start |-> 1, t_end |-> 2], [t_start |-> 2, t_end |-> 2] }

\* The failure flags localize() can set.
LocalizeFlags == { {}, {"low_similarity"} }

\* The segments localize() returns for n tracklets: the i-th belongs to the
\* i-th track, so segment ids differ.
SegmentLists(n) ==
    { [i \in 1..n |->
          TemporalSegment([track_id |-> "TRACK|" \o ToString(i)], clip[i],
                          "tracked_activity", span[i].t_start, span[i].t_end, 350, flags[i])] :
        clip \in [1..n -> SegmentClips], span \in [1..n -> SegmentSpans],
        flags \in [1..n -> LocalizeFlags] }

InitAmbiguity ==
    /\ IdleRuntime
    /\ IdleEngine
    /\ \E n \in 0..MaxSegments : \E segments \in SegmentLists(n) :
          arg = [op |-> "segments", segments |-> segments]
    /\ ret = NoRet

\* The loop `for idx, segment in enumerate(segments)` at the end of stage 5.
Stage5Flags ==
    /\ ret = NoRet
    /\ ret' = [op |-> "stage_5_flags", segments |-> FlagAmbiguity(arg.segments)]
    /\ UNCHANGED <<rtVars, arg, engVars>>

NextAmbiguity == Stage5Flags

SpecAmbiguity == InitAmbiguity /\ [][NextAmbiguity]_vars

\* Segments i and j of the list are different segments of one clip whose
\* closed time ranges meet.
OverlappingPair(segments, i, j) ==
    /\ i # j
    /\ segments[i].clip_id = segments[j].clip_id
    /\ segments[i].t_start <= segments[j].t_end
    /\ segments[j].t_start <= segments[i].t_end

\* `after` is `before` with the ambiguity flag added to the members of the
\* overlapping pairs and nothing else changed.
FlaggedExactly(before, after) ==
    /\ Len(after) = Len(before)
    /\ \A i \in 1..Len(before) :
          /\ "multi_actor_ambiguity" \in after[i].failure_flags
                <=> \E j \in 1..Len(before) : OverlappingPair(before, i, j)
          /\ after[i].failure_flags \ {"multi_actor_ambiguity"} = before[i].failure_flags
          /\ [after[i] EXCEPT !.failure_flags = before[i].failure_flags] = before[i]

\* C23: in the list stage 5 returns, a segment carries multi_actor_ambiguity
\* if and only if some other segment of the same clip has a time range
\* overlapping it (closed intervals), both members of every such pair are
\* flagged, and the pass changes nothing else in any segment.
C23_AmbiguityFlags ==
    ret.op = "stage_5_flags" => FlaggedExactly(arg.segments, ret.segments)

\* Two segments of one clip share only an endpoint and are both flagged, one
\* keeping its low_similarity flag; a third, in another clip, is not.
C23_Witness ==
    /\ ret.op = "stage_5_flags"
    /\ Len(ret.segments) = 3
    /\ ret.segments[1].t_end = ret.segments[2].t_start
    /\ ret.segments[1].t_start < ret.segments[2].t_start
    /\ ret.segments[1].failure_flags = {"low_similarity", "multi_actor_ambiguity"}
    /\ ret.segments[2].failure_flags = {"multi_actor_ambiguity"}
    /\ ret.segments[3].clip_id # ret.segments[1].clip_id
    /\ ret.segments[3].failure_flags = {}

(***************************************************************************)
(* Evidence accumulation over the lifetime of an engine                    *)
(***************************************************************************)
RECURSIVE BuiltEdgesUpTo(_)
\* The edges stage 6 built in runs 1..n, in the order they were built.
BuiltEdgesUpTo(n) ==
    IF n = 0 THEN <<>> ELSE BuiltEdgesUpTo(n - 1) \o runs[n].built_edges

\* The overlay of a track (overlay://<clip_id>/<track_id>.json) names it.
TrackOverlays ==
    {stores.evidence_registry[i].value[1].overlay_uri :
        i \in 1..Len(stores.evidence_registry)}

\* The registry's list for the track with the overlay.
RegistryOf(overlay_uri) ==
    stores.evidence_registry[CHOOSE i \in 1..Len(stores.evidence_registry) :
        stores.evidence_registry[i].value[1].overlay_uri = overlay_uri].value

\* The edges built for the track with the overlay, in building order.
EdgesOfTrack(edges, overlay_uri) ==
    SelectSeq(edges, LAMBDA edge : /\ edge.evidence_refs # <<>>
                                   /\ edge.evidence_refs[1].overlay_uri = overlay_uri)

\* The k-th edge of the track carries the first k references of the registry.
CarriesPrefix(track_edges, registry_list) ==
    /\ Len(track_edges) = Len(registry_list)
    /\ \A k \in 1..Len(track_edges) :
          track_edges[k].evidence_refs = SubSeq(registry_list, 1, k)

\* C24: each collection of evidence for a track appends one EvidenceRef to
\* the registry under the track, and the edge being built stores the
\* registry's complete list at that time, in insertion order; the registry is
\* never cleared, so the k-th edge built for a track over the lifetime of the
\* engine carries exactly k evidence refs.
C24_EvidenceAccumulates ==
    /\ \A k \in 1..Len(BuiltEdgesUpTo(Len(runs))) :
          /\ BuiltEdgesUpTo(Len(runs))[k].evidence_refs # <<>>
          /\ BuiltEdgesUpTo(Len(runs))[k].evidence_refs[1].overlay_uri \in TrackOverlays
    /\ \A overlay_uri \in TrackOverlays :
          CarriesPrefix(EdgesOfTrack(BuiltEdgesUpTo(Len(runs)), overlay_uri),
                        RegistryOf(overlay_uri))

\* The second edge of a track, built in the engine's second run, carries the
\* reference of the first run's edge and then its own.
C24_Witness ==
    /\ Len(runs) = 2
    /\ \E j \in 1..Len(runs[1].built_edges), k \in 1..Len(runs[2].built_edges) :
          /\ Len(runs[1].built_edges[j].evidence_refs) = 1
          /\ Len(runs[2].built_edges[k].evidence_refs) = 2
          /\ runs[2].built_edges[k].evidence_refs[1] = runs[1].built_edges[j].evidence_refs[1]
          /\ runs[2].built_edges[k].evidence_refs[2] # runs[1].built_edges[j].evidence_refs[1]

(***************************************************************************)
(* Specification: stages 4 and 6 applied to one list of tracklets          *)
(***************************************************************************)
MaxLinkedTracks == 3

\* Person tracklets of two labels and one object tracklet.
GraphTracklets ==
    { ResolveTracklet(c, sp, "person_p1") : c \in Cameras, sp \in ResolveSpans }
    \cup { ResolveTracklet("camA", <<0, 1>>, "Person_P2"),
           ResolveTracklet("camB", <<2, 2>>, "Person_P2"),
           _new_tracklet([clip_id |-> "clip_camA", camera_id |-> "camA"],
                         [window_id |-> WindowId("clip_camA", "cv_state", 0, 0, 1),
                          t_start |-> 0, t_end |-> 1],
                         "object", "red_suv", 880) }

\* Lists of tracklets as stage 3 returns them: no track twice.
GraphInputs ==
    UNION { { ts \in [1..k -> GraphTracklets] :
                \A i, j \in 1..k : ts[i].track_id = ts[j].track_id => i = j } :
            k \in 0..MaxLinkedTracks }

GraphTopologies ==
    { [c \in Cameras |-> {}],
      [c \in Cameras |-> CASE c = "camA" -> {"camB"}
                           [] c = "camB" -> {"camA", "camC"}
                           [] c = "camC" -> {"camB"}] }

InitGraph ==
    /\ IdleRuntime
    /\ IdleEngine
    /\ \E ts \in GraphInputs, topo \in GraphTopologies, mt \in TravelChoices :
          arg = [tracklets |-> ts, camera_topology |-> topo, max_travel |-> mt]
    /\ ret = NoRet

\* Stage 4, then stage 6 on a fresh graph store, with no temporal segment.
Stage6OnLinks ==
    /\ ret = NoRet
    /\ \E entity_links \in {resolve(arg.tracklets, arg.camera_topology, arg.max_travel)} :
          ret' = [op |-> "stage_6",
                  entity_links |-> entity_links,
                  graph_edges |-> _stage_6_graph_memory(EmptyStores, DefaultConfig,
                                                        arg.tracklets, entity_links,
                                                        <<>>).graph_edges]
    /\ UNCHANGED <<rtVars, arg, engVars>>

NextGraph == Stage6OnLinks

SpecGraph == InitGraph /\ [][NextGraph]_vars

\* The tracklets a link lists.
TracksOfLink(link, tracklets) ==
    SelectSeq(tracklets, LAMBDA t : t.track_id \in Range(link.track_ids))

\* (start time, camera id) of a is at most that of b.
StartCameraLeq(a, b) ==
    \/ a.t_start < b.t_start
    \/ a.t_start = b.t_start /\ CamRank(a.camera_id) <= CamRank(b.camera_id)

\* The edge goes from the link's entity to the track's camera and carries the
\* track's span and the link's confidence.
MovesToTrack(edge, link, track) ==
    /\ edge.source_id = link.entity_id
    /\ edge.target_id = track.camera_id
    /\ edge.camera_id = track.camera_id
    /\ edge.t_start = track.t_start
    /\ edge.t_end = track.t_end
    /\ edge.confidence = IF link.resolved THEN 800 ELSE 450

\* `moves` are the MOVES_TO edges of the link: one for every track of the
\* link but the first in (start time, camera id) order, in that order.
OnePerPair(moves, link, tracks) ==
    /\ Len(moves) = Max2(0, Len(tracks) - 1)
    /\ \A k \in 1..Len(moves) :
          \E i \in 1..Len(tracks) :
              /\ MovesToTrack(moves[k], link, tracks[i])
              /\ Cardinality({j \in 1..Len(tracks) : j # i /\ StartCameraLeq(tracks[j], tracks[i])})
                    = k

\* C25: for every person entity link with n linked tracks, stage 6 emits
\* exactly max(0, n - 1) MOVES_TO edges, one per consecutive pair of its
\* tracks sorted by (start time, camera id); each edge goes from the person
\* entity to the camera of the later track of the pair, carries that track's
\* time span, and has confidence 0.8 if the link is resolved and 0.45 if not.
C25_MovesToEdges ==
    ret.op = "stage_6" =>
        /\ \A i \in 1..Len(ret.entity_links) :
              ret.entity_links[i].entity_type = "person" =>
                  OnePerPair(SelectSeq(ret.graph_edges,
                                       LAMBDA edge :
                                           /\ edge.edge_type = "MOVES_TO"
                                           /\ edge.source_id = ret.entity_links[i].entity_id),
                             ret.entity_links[i],
                             TracksOfLink(ret.entity_links[i], arg.tracklets))
        /\ \A k \in 1..Len(ret.graph_edges) :
              \E i \in 1..Len(ret.entity_links) :
                  /\ ret.entity_links[i].entity_type = "person"
                  /\ ret.graph_edges[k].source_id = ret.entity_links[i].entity_id

\* An unresolved person link of three tracks has two MOVES_TO edges at 0.45.
C25_Witness ==
    /\ ret.op = "stage_6"
    /\ Len(ret.graph_edges) = 2
    /\ \E i \in 1..Len(ret.entity_links) :
          /\ ret.entity_links[i].entity_type = "person"
          /\ ~ret.entity_links[i].resolved
          /\ Len(ret.entity_links[i].track_ids) = 3
    /\ ret.graph_edges[1].confidence = 450
    /\ ret.graph_edges[1].t_start < ret.graph_edges[2].t_start

\* A resolved person link of three tracks has two MOVES_TO edges at 0.8.
ResolvedMoves ==
    /\ ret.op = "stage_6"
    /\ Len(ret.graph_edges) = 2
    /\ \A k \in 1..2 : ret.graph_edges[k].confidence = 800
    /\ ret.graph_edges[1].target_id # ret.graph_edges[2].target_id

(***************************************************************************)
(* Specification: stage 7 applied to one list of edges                     *)
(***************************************************************************)
MaxClaims == 3

\* The evidence an edge may carry: none, one reference, two.
EvidenceChoices ==
    { <<>>,
      <<[overlay_uri |-> "overlay://clip_ext/t1.json"]>>,
      <<[overlay_uri |-> "overlay://clip_ext/t1.json"],
        [overlay_uri |-> "overlay://clip_ext/t1.json"]>> }

SynthesisEdges ==
    { GraphEdge("EDGE|" \o edge_type \o "|" \o target_id, edge_type, "ENTITY|p1", target_id,
                0, 2, "camA", 800, evidence_refs) :
        edge_type \in {"EXITS", "MOVES_TO"}, target_id \in {"camA", "camB"},
        evidence_refs \in EvidenceChoices }

InitSynthesis ==
    /\ IdleRuntime
    /\ IdleEngine
    /\ \E n \in 0..MaxClaims : \E edges \in [1..n -> SynthesisEdges] :
          arg = [op |-> "edges", edges |-> edges]
    /\ ret = NoRet

Stage7OnEdges ==
    /\ ret = NoRet
    /\ ret' = [op |-> "stage_7",
               claims |-> [i \in 1..Len(arg.edges) |-> ClaimRecord(arg.edges[i])],
               synthesis |-> _stage_7_multimodal_synthesis("find the suv", arg.edges)]
    /\ UNCHANGED <<rtVars, arg, engVars>>

NextSynthesis == Stage7OnEdges

SpecSynthesis == InitSynthesis /\ [][NextSynthesis]_vars

\* The accounting of a SynthesisOutput against the claims it was built from.
Accounted(claims, output) ==
    /\ output.claims = SelectSeq(claims, LAMBDA claim : claim.evidence_refs # <<>>)
    /\ output.redacted_claim_count
          = Cardinality({i \in 1..Len(claims) : claims[i].evidence_refs = <<>>})
    /\ Len(output.claims) + output.redacted_claim_count = Len(claims)
    /\ Len(output.evidence_appendix) = Len(output.claims)
    /\ \A i \in 1..Len(output.claims) :
          output.evidence_appendix[i] = AppendixLine(output.claims[i])
    /\ output.summary = CONSERVATIVE_SUMMARY <=> output.claims = <<>>

\* C26: for any list of claims, the grounded claims kept (in input order)
\* plus redacted_claim_count equals the number of input claims,
\* redacted_claim_count is the number of input claims with empty evidence,
\* the evidence appendix has one line per kept claim, and the summary is the
\* fixed conservative text exactly when no claim is kept.
C26_SynthesisAccounting ==
    ret.op = "stage_7" => Accounted(ret.claims, ret.synthesis)

\* Of three claims the middle one has no evidence and is redacted.
C26_Witness ==
    /\ ret.op = "stage_7"
    /\ Len(ret.claims) = 3
    /\ ret.claims[2].evidence_refs = <<>>
    /\ ret.synthesis.claims = <<ret.claims[1], ret.claims[3]>>
    /\ ret.synthesis.redacted_claim_count = 1
    /\ Len(ret.synthesis.evidence_appendix) = 2
    /\ ret.synthesis.summary # CONSERVATIVE_SUMMARY

\* Every claim is redacted and the summary is the conservative text.
AllRedacted ==
    /\ ret.op = "stage_7"
    /\ Len(ret.claims) = 2
    /\ ret.synthesis.claims = <<>>
    /\ ret.synthesis.redacted_claim_count = 2
    /\ ret.synthesis.summary = CONSERVATIVE_SUMMARY

(***************************************************************************)
(* The L1 feature cache against the clips of the request being run         *)
(***************************************************************************)
\* The active window of the request with the id.
WindowOf(request, window_id) ==
    LastWith(Stage1Windows(request.clips), LAMBDA w : w.window_id, window_id)

\* What the extractor computes for the window from the request's clip.
FreshFeatures(request, window) ==
    extract_window_features(window,
                            LastWith(request.clips, LAMBDA c : c.clip_id, window.clip_id))

\* The features stage 2 scored the window with: the L1 entry it found or
\* stored under the window's key (an entry is never replaced).
UsedFeatures(window_id) == DictGet(stores.feature_cache.l1, "l1:" \o window_id)

\* C27: for any sequence of requests run on one engine, the window features
\* used to score a candidate window in stage 2 equal the features the
\* extractor computes from the current request's clip for that window.
C27_CacheCoherent ==
    Len(runs) >= 1 =>
        \A k \in 1..Len(runs[Len(runs)].scored) :
            UsedFeatures(runs[Len(runs)].scored[k].window_id)
                = FreshFeatures(runs[Len(runs)].request,
                                WindowOf(runs[Len(runs)].request,
                                         runs[Len(runs)].scored[k].window_id))

(***************************************************************************)
(* The transition log as a path                                            *)
(***************************************************************************)
\* C28: in every transition log reachable by transition() and
\* apply_branching_hook() calls, the to_stage of each event equals the
\* from_stage of the next event.
C28_LogChained ==
    \A i \in 1..(Len(events) - 1) : events[i].to_stage = events[i + 1].from_stage

(***************************************************************************)
(* The graph nodes of a result against the run that produced it            *)
(***************************************************************************)
\* The ids of the nodes stage 6 upserts for a run: one per entity link, one
\* per tracklet and one per tracklet's camera.
NodeIdsOfRun(result) ==
    { result.entity_links[i].entity_id : i \in 1..Len(result.entity_links) }
        \cup { result.tracklets[i].track_id : i \in 1..Len(result.tracklets) }
        \cup { result.tracklets[i].camera_id : i \in 1..Len(result.tracklets) }

\* C29: for any sequence of runs on one engine, the graph_nodes of a result
\* contain only nodes created for that run's entity links, tracklets and
\* cameras.
C29_GraphNodesIsolated ==
    \A n \in 1..Len(runs) :
        Returned(n) =>
            \A i \in 1..Len(runs[n].result.graph_nodes) :
                runs[n].result.graph_nodes[i].node_id \in NodeIdsOfRun(runs[n].result)

(***************************************************************************)
(* The samples inside a returned span                                      *)
(***************************************************************************)
\* The positions of the samples whose timestamp lies in the span.
SamplesInside(span) ==
    { i \in 1..Len(arg.timestamps) :
        span.t_start <= arg.timestamps[i] /\ arg.timestamps[i] <= span.t_end }

\* C30: for every span returned by the extraction, every sample whose
\* timestamp lies in [start, end] has a score greater than or equal to
\* hysteresis_low, and the confidence is the mean over exactly the samples
\* inside the span.
C30_SpanContents ==
    (ret.op = "extract_spans" /\ ret.done) =>
        \A k \in 1..Len(ret.spans) :
            /\ \A i \in SamplesInside(ret.spans[k]) : arg.scores[i] >= arg.low
            /\ ret.spans[k].score_count = Cardinality(SamplesInside(ret.spans[k]))

====
